---- MODULE Spec2Model ----
(***************************************************************************)
(* Chopsticks (N8Brooks/chopsticks): the rotating-roster rule engine       *)
(* chopsticks_state::ChopsticksState built by chopsticks::Chopsticks, and  *)
(* the fixed-array rule engine state::State with an explicit mover index.  *)
(* Indices (player offsets, hand indices) are 0-based as in the source;    *)
(* sequences are 1-based, so the source's v[k] is v[k + 1] here.           *)
(***************************************************************************)
EXTENDS Integers, Sequences, FiniteSets, TLC

\* ------------------------------------------------------------------ bounds
\* Largest number of players a configuration under exploration has.
MaxPlayers == 3
\* Largest number of hands per player a configuration under exploration has.
MaxHands == 2
\* Largest rollover (modulus) a configuration under exploration has.
MaxRollover == 5
\* Largest initial hand value a configuration under exploration has.
MaxInitial == 1
\* Largest rollover ^ n_players * n_hands ^ 3 * n_players of an explored
\* configuration.
MaxVolume == 400
\* Largest ROLLOVER ^ N * N of an explored StateSpace<N>.
MaxStateVolume == 32
\* Largest ROLLOVER ^ N * N of a StateSpace<N> whose games are played out.
MaxGameVolume == 200
MaxSerialVolume == 50
MaxPackVolume == 81
MaxSims == 1
MaxHistory == 3
MaxRankingVolume == 50

VARIABLES
    chopsticks,  \* chopsticks::Chopsticks, the builder the position came from
    players,     \* ChopsticksState.players: VecDeque<Player>, front = mover
    n_hands,     \* ChopsticksState.n_hands
    rollover,    \* ChopsticksState.rollover
    last,        \* the last call on the ChopsticksState and what it returned
    state_space,   \* the StateSpace<N> constants of a state::State
    state_i,       \* State.i: index of the player to move
    state_players, \* State.players: [Player; N], never shrinks
    state_last,    \* the last call on the State and what it returned
    serial_space,  \* the StateSpace<N> constants the serializers are used with
    subject,       \* the value handed to a serializer
    image,         \* what the serializers made of it so far
    applied,       \* the serializers applied to the subject, in order
    game,          \* the game::Game driver made of the State, and where its get_rankings is
    ranks,         \* the ranks array of get_rankings
    history,       \* the driver's history: Vec<Action>
    pmc_last       \* the last PureMonteCarlo::get_action call: sims, aggregates, result

cs_vars == <<chopsticks, players, n_hands, rollover, last>>
st_vars == <<state_space, state_i, state_players, state_last>>
ser_vars == <<serial_space, subject, image, applied>>
gm_vars == <<game, ranks, history, pmc_last>>
vars == <<cs_vars, st_vars, ser_vars, gm_vars>>

\* ------------------------------------------------------- generic helpers
Range(s) == {s[k] : k \in DOMAIN s}

RECURSIVE SeqSum(_)
\* Iterator::sum over a Vec<u32> (values stay far below 2^32 here).
SeqSum(s) == IF s = <<>> THEN 0 ELSE Head(s) + SeqSum(Tail(s))

RECURSIVE Insert(_, _)
Insert(x, s) ==
    IF s = <<>> THEN <<x>>
    ELSE IF x <= Head(s) THEN <<x>> \o s
    ELSE <<Head(s)>> \o Insert(x, Tail(s))

\* Mutant of sort_unstable: the sort is forgotten.
sort_forgotten(s) == s

RECURSIVE sort_unstable(_)
\* slice::sort_unstable: ascending order.
sort_unstable(s) ==
    IF s = <<>> THEN <<>> ELSE Insert(Head(s), sort_unstable(Tail(s)))

\* All sequences over S of length lo..hi.
SeqsOf(S, lo, hi) == UNION {[1..n -> S] : n \in lo..hi}

\* VecDeque::remove(i): drop the element at 0-based index i.
remove(ps, i) == SubSeq(ps, 1, i) \o SubSeq(ps, i + 2, Len(ps))

\* ------------------------------------------------------------ state::State
\* state::N_HANDS.
N_HANDS == 2

\* The StateSpace<N> implementations explored: state_space::chopsticks::
\* Chopsticks (N = 2, ROLLOVER = 5, INITIAL_FINGERS = 1) and others in bounds.
StateSpaces ==
    {c \in [N_PLAYERS : 2..MaxPlayers, ROLLOVER : 2..MaxRollover,
            INITIAL_FINGERS : 1..MaxInitial] :
        /\ c.INITIAL_FINGERS < c.ROLLOVER
        /\ (c.ROLLOVER ^ c.N_PLAYERS) * c.N_PLAYERS <= MaxStateVolume}

\* The StateSpace of a State no call is made on.
NoStateSpace == [N_PLAYERS |-> 0, ROLLOVER |-> 0, INITIAL_FINGERS |-> 0]

\* Player::new(id): every hand INITIAL_FINGERS.
Player_new(id, c) ==
    [id |-> id, hands |-> [h \in 1..N_HANDS |-> c.INITIAL_FINGERS]]

\* Player::default(): the same player whatever its place in the array, with
\* the initial hands.
Player_default(c) == Player_new(0, c)

\* State::default(): i = 0 and N default players.
State_default(c) == [k \in 1..c.N_PLAYERS |-> Player_default(c)]

\* state::player::Player::is_eliminated: the last hand is 0.
Player_is_eliminated(player) == player.hands[N_HANDS] = 0

\* State::iter_player_indexes: 0-based indexes of the non-eliminated players,
\* ascending.
iter_player_indexes(ps) ==
    LET alive(k) == ~Player_is_eliminated(ps[k + 1])
    IN  SelectSeq([k \in 1..Len(ps) |-> k - 1], alive)

\* State::get_status: panics with no player left, Over with one, else Turn.
get_status(i, ps) ==
    LET count == Len(iter_player_indexes(ps))
    IN  IF count = 0 THEN [kind |-> "panic", i |-> i]
        ELSE IF count = 1 THEN [kind |-> "Over", i |-> i]
        ELSE [kind |-> "Turn", i |-> i]

\* State::play_iterate_turn: while the game is on, i becomes element
\* (i + 1) of the cycled sequence of non-eliminated indexes.
play_iterate_turn(i, ps) ==
    LET alive == iter_player_indexes(ps)
    IN  IF get_status(i, ps).kind = "Turn"
        THEN alive[((i + 1) % Len(alive)) + 1]
        ELSE i

\* The hit of play_attack on players ps: hand b of player j takes a_value
\* fingers, modulo ROLLOVER.
hit_players(ps, j, a_value, b, c) ==
    [ps EXCEPT ![j + 1].hands[b + 1] = (@ + a_value) % c.ROLLOVER]

\* The hit on the State's players.
play_attack_hit(j, a_value, b) ==
    hit_players(state_players, j, a_value, b, state_space)

\* What play_attack(i, j, a, b) returns; "panic" is get_status panicking in
\* play_iterate_turn once the hit has left no non-eliminated player.

play_attack_result(i, j, a, b) ==
    IF i >= Len(state_players) \/ j >= Len(state_players)
        THEN "PlayerIndexOutOfBounds"
    ELSE IF a >= N_HANDS \/ b >= N_HANDS THEN "HandIndexOutOfBounds"
    ELSE IF i = j THEN "PlayerAttackSelf"
    ELSE IF state_players[i + 1].hands[a + 1] = 0
            \/ state_players[j + 1].hands[b + 1] = 0
        THEN "HandIsNotAlive"
    ELSE IF get_status(state_i,
                play_attack_hit(j, state_players[i + 1].hands[a + 1], b)).kind
            = "panic"
        THEN "panic"
    ELSE "Ok"

\* play_split without the check of the values of hands_1.
play_split_result_any_value(i, hands_0, hands_1) ==
    IF i >= Len(state_players) THEN "panic"
    ELSE IF hands_0 # state_players[i + 1].hands THEN "ImproperContext"
    ELSE IF sort_unstable(hands_0) = sort_unstable(hands_1)
        THEN "MoveWithoutChange"
    ELSE IF SeqSum(hands_0) # SeqSum(hands_1) THEN "InvalidTotalFingers"
    ELSE "Ok"

\* What play_split(i, hands_0, hands_1) returns; "panic" is players[i] with
\* i out of bounds.
play_split_result(i, hands_0, hands_1) ==
    IF i >= Len(state_players) THEN "panic"
    ELSE IF hands_0 # state_players[i + 1].hands THEN "ImproperContext"
    ELSE IF sort_unstable(hands_0) = sort_unstable(hands_1)
        THEN "MoveWithoutChange"
    ELSE IF SeqSum(hands_0) # SeqSum(hands_1) THEN "InvalidTotalFingers"
    ELSE IF \E k \in DOMAIN hands_1 :
                ~(hands_1[k] \in 1..(state_space.ROLLOVER - 1))
        THEN "InvalidFingerValue"
    ELSE "Ok"

\* The actions of state::action and the record of the last call on a State:
\* the operation, what it returned and, when it was applied (or panicked
\* after writing), the kind of move and the player who made it.
AttackAction(i, j, a, b) == [kind |-> "Attack", i |-> i, j |-> j, a |-> a, b |-> b]
SplitAction(i, hands_0, hands_1) ==
    [kind |-> "Split", i |-> i, hands_0 |-> hands_0, hands_1 |-> hands_1]
NoStateCall == [op |-> "default", kind |-> "None", i |-> 0, res |-> "Ok"]
state_returned(op, res, action) ==
    IF res \in {"Ok", "panic"}
        THEN [op |-> op, kind |-> action.kind, i |-> action.i, res |-> res]
    ELSE [NoStateCall EXCEPT !.op = op, !.res = res]

\* Action::get_i: the index of the player the action is made by.
get_i(action) == action.i

\* The effect of a play_attack that passed its checks: the hit is written,
\* then play_iterate_turn runs (a panic there leaves the hit written).
play_attack_effect(i, j, a, b) ==
    LET hit == play_attack_hit(j, state_players[i + 1].hands[a + 1], b)
    IN  /\ state_players' = hit
        /\ state_i' = IF get_status(state_i, hit).kind = "panic" THEN state_i
                      ELSE play_iterate_turn(state_i, hit)

\* The effect of a play_split that passed its checks.
play_split_effect(i, hands_1) ==
    LET written == [state_players EXCEPT ![i + 1].hands = hands_1]
    IN  /\ state_players' = written
        /\ state_i' = play_iterate_turn(state_i, written)

\* State::play_attack.
play_attack(i, j, a, b) ==
    LET res == play_attack_result(i, j, a, b)
    IN  /\ IF res \in {"Ok", "panic"} THEN play_attack_effect(i, j, a, b)
           ELSE UNCHANGED <<state_i, state_players>>
        /\ state_last' = state_returned("play_attack", res, AttackAction(i, j, a, b))
        /\ UNCHANGED state_space

\* State::play_split.
play_split(i, hands_0, hands_1) ==
    LET res == play_split_result(i, hands_0, hands_1)
    IN  /\ IF res = "Ok" THEN play_split_effect(i, hands_1)
           ELSE UNCHANGED <<state_i, state_players>>
        /\ state_last' = state_returned("play_split", res,
                                        SplitAction(i, hands_0, hands_1))
        /\ UNCHANGED state_space

\* play_action with the turn check made before the game-over check.
play_action_result_turn_first(action) ==
    IF action.i # state_i THEN "WrongTurn"
    ELSE IF Len(iter_player_indexes(state_players)) <= 1 THEN "GameIsOver"
    ELSE IF action.kind = "Attack"
        THEN play_attack_result(action.i, action.j, action.a, action.b)
    ELSE play_split_result(action.i, action.hands_0, action.hands_1)

\* What play_action(action) returns.
play_action_result(action) ==
    IF Len(iter_player_indexes(state_players)) <= 1 THEN "GameIsOver"
    ELSE IF get_i(action) # state_i THEN "WrongTurn"
    ELSE IF action.kind = "Attack"
        THEN play_attack_result(action.i, action.j, action.a, action.b)
    ELSE play_split_result(action.i, action.hands_0, action.hands_1)

\* State::play_action.
play_action(action) ==
    LET res == play_action_result(action)
    IN  /\ IF res \in {"Ok", "panic"} /\ action.kind = "Attack"
               THEN play_attack_effect(action.i, action.j, action.a, action.b)
           ELSE IF res = "Ok" THEN play_split_effect(action.i, action.hands_1)
           ELSE UNCHANGED <<state_i, state_players>>
        /\ state_last' = state_returned("play_action", res, action)
        /\ UNCHANGED state_space

\* ------------------------------------------- state::State: legal actions
RECURSIVE Flatten(_)
\* Iterator::flat_map / chain: the sequences of ss one after the other.
Flatten(ss) == IF ss = <<>> THEN <<>> ELSE Head(ss) \o Flatten(Tail(ss))

\* Itertools::cartesian_product, the first sequence varying slowest.
cartesian_product(xs, ys) ==
    Flatten([x \in 1..Len(xs) |-> [y \in 1..Len(ys) |-> <<xs[x], ys[y]>>]])

\* alive_fingers_indexes with take_while in place of skip_while: the indexes
\* of the leading zero hands.
alive_fingers_indexes_take_while(player) ==
    LET skipped == {k \in 0..N_HANDS :
                       \A h \in 1..k : player.hands[h] = 0}
        first == CHOOSE k \in skipped : \A m \in skipped : m <= k
    IN  [k \in 1..first |-> k - 1]

\* Player::alive_fingers_indexes: the hand indexes left once the leading
\* zero hands are skipped (skip_while), whatever the values after them.
alive_fingers_indexes(player) ==
    LET skipped == {k \in 0..N_HANDS :
                       \A h \in 1..k : player.hands[h] = 0}
        first == CHOOSE k \in skipped : \A m \in skipped : m <= k
    IN  [k \in 1..(N_HANDS - first) |-> first + k - 1]

\* State::iter_attack_actions: for every player j other than the mover, in
\* index order, the mover's alive indexes times the defender's.
iter_attack_actions_at(i, ps) ==
    LET others == SelectSeq([k \in 1..Len(ps) |-> k - 1], LAMBDA j : j # i)
        a_indexes == alive_fingers_indexes(ps[i + 1])
        of(j) == LET pairs == cartesian_product(a_indexes,
                                  alive_fingers_indexes(ps[j + 1]))
                 IN  [k \in 1..Len(pairs) |->
                        AttackAction(i, j, pairs[k][1], pairs[k][2])]
    IN  Flatten([k \in 1..Len(others) |-> of(others[k])])

\* iter_attack_actions of the State.
iter_attack_actions == iter_attack_actions_at(state_i, state_players)

\* State::iter_split_actions: [a, total - a] for a from
\* max(total % ROLLOVER + 1, 1) to total / 2, but for the mover's own hands.
iter_split_actions_at(i, ps, c) ==
    LET hands == ps[i + 1].hands
        total == SeqSum(hands)
        from == IF (total % c.ROLLOVER) + 1 > 1
                    THEN (total % c.ROLLOVER) + 1 ELSE 1
        stop == total \div 2
        count == IF stop >= from THEN stop - from + 1 ELSE 0
        candidates == [k \in 1..count |-> <<from + k - 1, total - (from + k - 1)>>]
        changed == SelectSeq(candidates,
                       LAMBDA h : sort_unstable(hands) # sort_unstable(h))
    IN  [k \in 1..Len(changed) |-> SplitAction(i, hands, changed[k])]

\* iter_split_actions of the State.
iter_split_actions == iter_split_actions_at(state_i, state_players, state_space)

\* State::iter_actions: the attacks, then the splits.
iter_actions_at(i, ps, c) ==
    iter_attack_actions_at(i, ps) \o iter_split_actions_at(i, ps, c)

\* iter_actions of the State.
iter_actions == iter_actions_at(state_i, state_players, state_space)

\* The outcome of a get_action that panicked instead of returning an action.
NoAction == [kind |-> "panic"]

\* strategies::random::Random::get_action: a panic on an empty Vec of
\* actions (expect), else any one of them.
Random_get_action ==
    IF iter_actions = <<>> THEN {NoAction} ELSE Range(iter_actions)

\* State::is_loop_state is implemented for two players, one initial finger
\* and ROLLOVER 5 only; it panics for every other StateSpace.
is_loop_state_implemented ==
    /\ state_space.N_PLAYERS = 2
    /\ state_space.INITIAL_FINGERS = 1
    /\ state_space.ROLLOVER = 5

\* The players once play_action(action) on players ps returned Ok.
played_players(ps, action, c) ==
    IF action.kind = "Attack"
        THEN hit_players(ps, action.j, ps[action.i + 1].hands[action.a + 1],
                         action.b, c)
    ELSE [ps EXCEPT ![action.i + 1].hands = action.hands_1]

\* The players of the simulated game once play_action(action) returned Ok.
sim_players(action) == played_players(state_players, action, state_space)

\* One simulation of PureMonteCarlo::get_action for an action: play_action
\* on a clone of the state must return Ok (expect), and get_rankings asks
\* is_loop_state as long as the status is Turn. The rollout after that first
\* question is not followed: it plays Random's actions until Over or a loop
\* state, and its ranks decide nothing but which action is preferred.
sim_outcome(action) ==
    IF play_action_result(action) # "Ok" THEN "panic"
    ELSE IF /\ get_status(state_i, sim_players(action)).kind = "Turn"
            /\ ~is_loop_state_implemented
        THEN "panic"
    ELSE "ranked"

\* Mutant of is_loop_state: one order of the two players only.
is_loop_state_one_order(ps) ==
    sort_unstable(ps[1].hands) = <<0, 1>> /\ sort_unstable(ps[2].hands) = <<0, 2>>

\* State::is_loop_state where it is implemented: one player's sorted hands
\* are [0, 1] and the other's [0, 2].
is_loop_state(ps) ==
    \/ sort_unstable(ps[1].hands) = <<0, 1>> /\ sort_unstable(ps[2].hands) = <<0, 2>>
    \/ sort_unstable(ps[1].hands) = <<0, 2>> /\ sort_unstable(ps[2].hands) = <<0, 1>>

\* Game::get_player_ids: the ids of all the players of the State's array.
get_player_ids(ps) == {ps[k].id : k \in DOMAIN ps}

\* The writes one turn of get_rankings makes to ranks after the action was
\* played: ranks[id] = n_players for every id of get_player_ids.
ranks_written(rk, ps) ==
    [k \in DOMAIN rk |-> IF (k - 1) \in get_player_ids(ps)
                             THEN Cardinality(get_player_ids(ps)) ELSE rk[k]]

\* ranks[i] of a simulation that returned: the ranks are [N; N] when the loop
\* of get_rankings stops at once (Over or a loop state); else every turn of
\* the rollout makes the same writes, the ids never changing.
sim_rank(action) ==
    LET played == sim_players(action)
        sentinel == [k \in 1..state_space.N_PLAYERS |-> state_space.N_PLAYERS]
    IN  IF get_status(state_i, played).kind = "Turn" /\ ~is_loop_state(played)
            THEN ranks_written(sentinel, played)[state_i + 1]
        ELSE sentinel[state_i + 1]

\* The key of an action: the sum of ranks[i] over n_sims simulations.
PureMonteCarlo_keys(n_sims) ==
    [k \in 1..Len(iter_actions) |->
        SeqSum([sim \in 1..n_sims |-> sim_rank(iter_actions[k])])]

\* Iterator::min_by_key with the last of several minimal elements returned.
min_by_key_last(xs, keys) ==
    xs[CHOOSE k \in DOMAIN xs :
          /\ \A j \in DOMAIN xs : keys[j] >= keys[k]
          /\ \A j \in DOMAIN xs : j > k => keys[j] > keys[k]]

\* Iterator::min_by_key on a non-empty sequence: the element with the least
\* key, the first of them when several have it.
min_by_key(xs, keys) ==
    xs[CHOOSE k \in DOMAIN xs :
          /\ \A j \in DOMAIN xs : keys[j] >= keys[k]
          /\ \A j \in DOMAIN xs : j < k => keys[j] > keys[k]]

\* strategies::pure_monte_carlo::PureMonteCarlo::get_action with n_sims
\* simulations per action: a panic when the status is not Turn, when no
\* action is yielded or when a simulation panics; else the action min_by_key
\* returns for the sums of the simulated ranks (with no simulation every key
\* is 0). A rollout that never ends is not modelled.
PureMonteCarlo_get_action(n_sims) ==
    IF get_status(state_i, state_players).kind # "Turn" THEN {NoAction}
    ELSE IF iter_actions = <<>> THEN {NoAction}
    ELSE IF /\ n_sims > 0
            /\ \E action \in Range(iter_actions) : sim_outcome(action) = "panic"
        THEN {NoAction}
    ELSE {min_by_key(iter_actions, PureMonteCarlo_keys(n_sims))}

\* Arguments tried on a State: player indexes and hand indexes up to one past
\* the valid ones. A split is tried with the player's own hands as hands_0
\* and any pair of values up to ROLLOVER as hands_1, and with another hands_0
\* (reversed, or the initial hands) and one of two hands_1.
IndexArgs == 0..Len(state_players)
HandIndexArgs == 0..N_HANDS
Hands1Args == [1..N_HANDS -> 0..state_space.ROLLOVER]
SplitArgsOf(i) ==
    IF i >= Len(state_players)
        THEN {<<State_default(state_space)[1].hands, State_default(state_space)[1].hands>>}
    ELSE LET own == state_players[i + 1].hands
             other == {<<own[2], own[1]>>, State_default(state_space)[1].hands}
         IN  {<<own, h1>> : h1 \in Hands1Args}
             \cup UNION {{<<h0, own>>, <<h0, h0>>} : h0 \in other}
AttackActionArgs ==
    {AttackAction(i, j, a, b) : i \in IndexArgs, j \in IndexArgs,
                                a \in HandIndexArgs, b \in HandIndexArgs}
SplitActionArgs ==
    UNION {{SplitAction(i, h[1], h[2]) : h \in SplitArgsOf(i)} : i \in IndexArgs}

\* No call is made on a State that has panicked.
StateUsable == state_last.res # "panic"

DoPlayAttack ==
    /\ StateUsable
    /\ \E i \in IndexArgs, j \in IndexArgs, a \in HandIndexArgs,
          b \in HandIndexArgs : play_attack(i, j, a, b)
DoPlaySplit ==
    /\ StateUsable
    /\ \E i \in IndexArgs : \E h \in SplitArgsOf(i) : play_split(i, h[1], h[2])
DoPlayAction ==
    /\ StateUsable
    /\ \E action \in AttackActionArgs \cup SplitActionArgs : play_action(action)

StateUntouched ==
    /\ state_space = NoStateSpace
    /\ state_i = 0
    /\ state_players = <<>>
    /\ state_last = NoStateCall

\* ------------------------------------------------------------ serializers
\* StateSpace::SPLIT_OFFSET = N * N_HANDS * N_HANDS.
SPLIT_OFFSET(c) == c.N_PLAYERS * N_HANDS * N_HANDS

\* StateSpace::HANDS_OFFSET = ROLLOVER.pow(N_HANDS).
HANDS_OFFSET(c) == c.ROLLOVER ^ N_HANDS

\* The fold both hand serializers use: serial * ROLLOVER + fingers, from the
\* first hand on (u32 in the source; the values here stay far below 2^32).
RECURSIVE fold_hands(_, _, _)
fold_hands(serial, hands, c) ==
    IF hands = <<>> THEN serial
    ELSE fold_hands(serial * c.ROLLOVER + Head(hands), Tail(hands), c)

\* Player::serialize.
Player_serialize(hands, c) == fold_hands(0, hands, c)

\* The loop of from_serial: while serial > 0, hands[i] = serial % ROLLOVER,
\* serial /= ROLLOVER, i = i.saturating_sub(1).
RECURSIVE from_serial_loop(_, _, _, _)
from_serial_loop(hands, serial, i, c) ==
    IF serial > 0
        THEN from_serial_loop([hands EXCEPT ![i + 1] = serial % c.ROLLOVER],
                              serial \div c.ROLLOVER,
                              IF i > 0 THEN i - 1 ELSE 0, c)
    ELSE hands

\* Player::from_serial with the hands filled from index 0 upwards.
Player_from_serial_reversed(serial, c) ==
    LET hands == from_serial_loop([h \in 1..N_HANDS |-> 0], serial, N_HANDS - 1, c)
    IN  [h \in 1..N_HANDS |-> hands[N_HANDS + 1 - h]]

\* Player::from_serial: the hands of the player it returns.
Player_from_serial(serial, c) ==
    from_serial_loop([h \in 1..N_HANDS |-> 0], serial, N_HANDS - 1, c)

\* The values handed to the serializers and made by them.
NoSubject == [kind |-> "None", i |-> 0, a |-> 0, b |-> 0, hands |-> <<>>,
              serial |-> 0, players |-> <<>>]
PlayerSubject(hands) == [NoSubject EXCEPT !.kind = "Player", !.hands = hands]
SerialSubject(kind, serial) == [NoSubject EXCEPT !.kind = kind, !.serial = serial]

\* The StateSpace<N> implementations the serializers are explored with.
SerialSpaces ==
    [N_PLAYERS : 2..MaxPlayers, ROLLOVER : 2..MaxRollover, INITIAL_FINGERS : {1}]

HandArrays(c) == [1..N_HANDS -> 0..(c.ROLLOVER - 1)]
PlayerSubjects(c) == {PlayerSubject(h) : h \in HandArrays(c)}
PlayerSerialSubjects(c) ==
    {SerialSubject("PlayerSerial", n) : n \in 0..(HANDS_OFFSET(c) - 1)}

\* player.serialize() on a player, or on the one from_serial just made.
DoPlayerSerialize ==
    /\ image.kind = "Player"
    /\ Len(applied) < 2
    /\ image' = SerialSubject("PlayerSerial", Player_serialize(image.hands, serial_space))
    /\ applied' = Append(applied, "Player::serialize")
    /\ UNCHANGED <<serial_space, subject>>

\* Player::from_serial on a serial, or on the one serialize just made.
DoPlayerFromSerial ==
    /\ image.kind = "PlayerSerial"
    /\ Len(applied) < 2
    /\ image' = PlayerSubject(Player_from_serial(image.serial, serial_space))
    /\ applied' = Append(applied, "Player::from_serial")
    /\ UNCHANGED <<serial_space, subject>>

\* T::ATTACK_SERIAL_BASE, the first serial of a Split: the size of the range
\* of the attacks, N_PLAYERS * N_HANDS * N_HANDS.
ATTACK_SERIAL_BASE(c) == c.N_PLAYERS * N_HANDS * N_HANDS

\* state::action::Action values: Attack { i, a, b } and Split { hands }.
AttackSubject(i, a, b) ==
    [NoSubject EXCEPT !.kind = "Attack", !.i = i, !.a = a, !.b = b]
SplitSubject(hands) == [NoSubject EXCEPT !.kind = "Split", !.hands = hands]

\* Action::serialize.
Action_serialize(action, c) ==
    IF action.kind = "Attack"
        THEN (action.i * c.N_PLAYERS + action.a) * N_HANDS + action.b
    ELSE fold_hands(0, action.hands, c) + ATTACK_SERIAL_BASE(c)

\* Action::from_serial.
Action_from_serial(serial, c) ==
    IF serial < ATTACK_SERIAL_BASE(c)
        THEN AttackSubject((serial \div N_HANDS) \div c.N_PLAYERS,
                           (serial \div N_HANDS) % c.N_PLAYERS,
                           serial % N_HANDS)
    ELSE SplitSubject(from_serial_loop([h \in 1..N_HANDS |-> 0],
                                       serial - ATTACK_SERIAL_BASE(c),
                                       N_HANDS - 1, c))

\* The actions of the encodable domain and their serials.
ActionSubjects(c) ==
    {AttackSubject(i, a, b) : i \in 0..(c.N_PLAYERS - 1),
                              a \in 0..(N_HANDS - 1), b \in 0..(N_HANDS - 1)}
        \cup {SplitSubject(h) : h \in HandArrays(c)}
ActionSerialSubjects(c) ==
    {SerialSubject("ActionSerial", n) :
        n \in 0..(ATTACK_SERIAL_BASE(c) + HANDS_OFFSET(c) - 1)}

\* action.serialize() on an action, or on the one from_serial just made.
DoActionSerialize ==
    /\ image.kind \in {"Attack", "Split"}
    /\ Len(applied) < 2
    /\ image' = SerialSubject("ActionSerial", Action_serialize(image, serial_space))
    /\ applied' = Append(applied, "Action::serialize")
    /\ UNCHANGED <<serial_space, subject>>

\* Action::from_serial on a serial, or on the one serialize just made.
DoActionFromSerial ==
    /\ image.kind = "ActionSerial"
    /\ Len(applied) < 2
    /\ image' = Action_from_serial(image.serial, serial_space)
    /\ applied' = Append(applied, "Action::from_serial")
    /\ UNCHANGED <<serial_space, subject>>

RECURSIVE fold_players(_, _, _)
\* The fold of serialize_state over the players array:
\* serial * HANDS_OFFSET + serialize_player(player).
fold_players(serial, ps, c) ==
    IF ps = <<>> THEN serial
    ELSE fold_players(serial * HANDS_OFFSET(c) + fold_hands(0, Head(ps).hands, c),
                      Tail(ps), c)

\* StateSpace::serialize_state: the folded players times SPLIT_OFFSET.
serialize_state(ps, c) == fold_players(0, ps, c) * SPLIT_OFFSET(c)

\* A state::State { i, players } handed to serialize_state.
StateSubject(i, ps) == [NoSubject EXCEPT !.kind = "State", !.i = i, !.players = ps]

\* serialize_state(&state) on the current State; the position and its serial
\* are kept.
DoSerializeState ==
    /\ state_last.res = "Ok"
    /\ serial_space' = state_space
    /\ subject' = StateSubject(state_i, state_players)
    /\ image' = SerialSubject("StateSerial", serialize_state(state_players, state_space))
    /\ applied' = <<"serialize_state">>

\* A (state, action) pair: the players of a State and an Action.
StateActionSubject(ps, action) ==
    [action EXCEPT !.kind = "State" \o action.kind, !.players = ps]

\* The Action of a (state, action) pair.
ActionOf(pair) ==
    IF pair.kind = "StateAttack" THEN AttackSubject(pair.i, pair.a, pair.b)
    ELSE SplitSubject(pair.hands)

\* serialize_state(state) + action.serialize(), the serial of the pair.
serialize_state_action(pair, c) ==
    serialize_state(pair.players, c) + Action_serialize(ActionOf(pair), c)

\* The players arrays over [0, ROLLOVER) and the pairs they make with the
\* actions of the domain; none for the spaces too large to enumerate.
PlayerArrays(c) ==
    [1..c.N_PLAYERS -> {[id |-> 0, hands |-> h] : h \in HandArrays(c)}]
StateActionSubjects(c) ==
    IF HANDS_OFFSET(c) ^ c.N_PLAYERS > MaxPackVolume THEN {}
    ELSE {StateActionSubject(ps, action) :
              ps \in PlayerArrays(c), action \in ActionSubjects(c)}

\* serialize_state and Action::serialize on a pair, added up.
DoSerializeStateAction ==
    /\ image.kind \in {"StateAttack", "StateSplit"}
    /\ applied = <<>>
    /\ image' = SerialSubject("StateActionSerial",
                              serialize_state_action(image, serial_space))
    /\ applied' = <<"serialize_state + Action::serialize">>
    /\ UNCHANGED <<serial_space, subject>>

SerialUntouched ==
    /\ serial_space = NoStateSpace
    /\ subject = NoSubject
    /\ image = NoSubject
    /\ applied = <<>>

\* No game::Game made, no get_rankings running, no PureMonteCarlo asked.
NoGame == [kind |-> "None", at |-> "new", player_ids |-> {}]
NoMonteCarlo == [n_sims |-> 0, keys |-> <<>>, action |-> [kind |-> "None"]]
GameUntouched ==
    /\ game = NoGame
    /\ ranks = <<>>
    /\ history = <<>>
    /\ pmc_last = NoMonteCarlo

\* ------------------------------------------------ chopsticks::Chopsticks
\* Chopsticks::new: the four settings and the two offsets derived from them
\* (T is taken wide enough for the conversions to succeed).
Chopsticks_new(players_n, hands_n, rollover_n, initial_n) ==
    [n_players |-> players_n, n_hands |-> hands_n, rollover |-> rollover_n,
     initial_rollover |-> initial_n,
     split_offset |-> players_n * hands_n * hands_n,
     hands_offset |-> rollover_n ^ hands_n]

\* Chopsticks::default(): new(2, 2, 5, 1).
DefaultConfig == Chopsticks_new(2, 2, 5, 1)

\* The configurations the builder's setters can produce from default()
\* (n_players >= 1, n_hands >= 1, initial_rollover < rollover), within the
\* bounds; no setter writes split_offset or hands_offset.
Configs ==
    {[DefaultConfig EXCEPT !.n_players = c.n_players, !.n_hands = c.n_hands,
                           !.rollover = c.rollover,
                           !.initial_rollover = c.initial_rollover] :
        c \in {c \in [n_players : 1..MaxPlayers, n_hands : 1..MaxHands,
                      rollover : 1..MaxRollover,
                      initial_rollover : 0..MaxInitial] :
                  /\ c.initial_rollover < c.rollover
                  /\ (c.rollover ^ c.n_players) * (c.n_hands ^ 3) * c.n_players
                         <= MaxVolume}}

\* Chopsticks::build: players 0..n_players-1, every hand initial_rollover.
build(c) ==
    [k \in 1..c.n_players |->
        [id |-> k - 1, hands |-> [h \in 1..c.n_hands |-> c.initial_rollover]]]

\* ------------------------------------- chopsticks_state::ChopsticksState
\* Mutant of is_eliminated: looks at the first (smallest) hand.
is_eliminated_first_hand(player) == player.hands[1] = 0

\* Player::is_eliminated: the last (largest, when sorted) hand is 0.
is_eliminated(player) == player.hands[Len(player.hands)] = 0

\* Mutant of iterate_turn: the roster is not rotated.
iterate_turn_forgotten(ps) == ps

\* Mutant of iterate_turn: the two players at the front change places
\* (players.swap(0, 1)).
iterate_turn_swap(ps) ==
    IF Len(ps) < 2 THEN ps ELSE <<ps[2], ps[1]>> \o SubSeq(ps, 3, Len(ps))

\* ChopsticksState::iterate_turn: players.rotate_left(1).
iterate_turn(ps) == Tail(ps) \o <<Head(ps)>>

\* Mutant of winner_id: a winner is reported while two players remain.
winner_id_while_two == IF Len(players) <= 2 THEN <<players[1].id>> ELSE <<>>

\* ChopsticksState::winner_id: Some(id) iff exactly one player is left.
winner_id == IF Len(players) = 1 THEN <<players[1].id>> ELSE <<>>

\* ChopsticksState::get_turn.
get_turn == players[1].id

\* What attack(i, a, b) returns; "panic" is the index-out-of-bounds panic of
\* hands[a] / hands[b] on a hand Vec shorter than n_hands.
attack_result(i, a, b) ==
    IF i = 0 \/ i >= Len(players) THEN "PlayerIndexOutOfBounds"
    ELSE IF a >= n_hands \/ b >= n_hands THEN "HandIndexOutOfBounds"
    ELSE IF a >= Len(players[1].hands) \/ b >= Len(players[i + 1].hands)
        THEN "panic"
    ELSE IF players[1].hands[a + 1] = 0 \/ players[i + 1].hands[b + 1] = 0
        THEN "HandIsNotAlive"
    ELSE "Ok"

\* Mutant of hit_value: the sum is not reduced modulo rollover.
hit_value_unreduced(defender, attacker) == defender + attacker

\* The defending hand after the hit: (*defender + attacker) % self.rollover.
hit_value(defender, attacker) == (defender + attacker) % rollover

\* Mutant of attack_players: the defender's hands are not sorted again.
attack_players_unsorted(i, a, b) ==
    LET attacker == players[1].hands[a + 1]
        defending_player == players[i + 1]
        hit == [defending_player.hands EXCEPT
                   ![b + 1] = hit_value(@, attacker)]
        unsorted == [defending_player EXCEPT !.hands = hit]
        written == [players EXCEPT ![i + 1] = unsorted]
    IN  iterate_turn(IF is_eliminated(unsorted) THEN remove(written, i)
                     ELSE written)

\* The roster after a successful attack(i, a, b).
attack_players(i, a, b) ==
    LET attacker == players[1].hands[a + 1]
        defending_player == players[i + 1]
        hit == [defending_player.hands EXCEPT
                   ![b + 1] = hit_value(@, attacker)]
        sorted == [defending_player EXCEPT !.hands = sort_unstable(hit)]
        written == [players EXCEPT ![i + 1] = sorted]
    IN  iterate_turn(IF is_eliminated(sorted) THEN remove(written, i)
                     ELSE written)

\* Mutant of split_result: the finger values are checked before the total.
split_result_values_first(new_hands) ==
    LET sorted == sort_unstable(new_hands)
    IN  IF players[1].hands = sorted THEN "MoveWithoutChange"
        ELSE IF \E k \in DOMAIN sorted : ~(sorted[k] \in 1..(rollover - 1))
            THEN "InvalidFingerValue"
        ELSE IF SeqSum(sorted) # SeqSum(players[1].hands)
            THEN "InvalidTotalRollover"
        ELSE "Ok"

\* What split(new_hands) returns.
split_result(new_hands) ==
    LET sorted == sort_unstable(new_hands)
    IN  IF players[1].hands = sorted THEN "MoveWithoutChange"
        ELSE IF SeqSum(sorted) # SeqSum(players[1].hands)
            THEN "InvalidTotalRollover"
        ELSE IF \E k \in DOMAIN sorted : ~(sorted[k] \in 1..(rollover - 1))
            THEN "InvalidFingerValue"
        ELSE "Ok"

\* Mutant of split_players: new_hands is stored as the caller listed it.
split_players_as_listed(new_hands) ==
    iterate_turn([players EXCEPT ![1].hands = new_hands])

\* The roster after a successful split(new_hands).
split_players(new_hands) ==
    iterate_turn([players EXCEPT ![1].hands = sort_unstable(new_hands)])

\* The record of the last call: which operation, what it returned and, when
\* it was applied (returned Ok), the arguments it was called with.
NoCall == [op |-> "build", kind |-> "None", i |-> 0, a |-> 0, b |-> 0,
           new_hands |-> <<>>, res |-> "Ok"]

returned(op, res, args) ==
    IF res = "Ok" THEN [args EXCEPT !.op = op, !.res = res]
    ELSE [NoCall EXCEPT !.op = op, !.kind = args.kind, !.res = res]

AttackArgs(i, a, b) == [NoCall EXCEPT !.kind = "Attack", !.i = i, !.a = a, !.b = b]
SplitArgs(new_hands) == [NoCall EXCEPT !.kind = "Split", !.new_hands = new_hands]

\* Arguments tried: one player offset and one hand index past the valid ones,
\* hand Vecs of n_hands or one fewer values, each up to rollover.
PlayerArgs == 0..Len(players)
HandArgs == 0..n_hands
HandsArgs == SeqsOf(0..rollover, n_hands - 1, n_hands)

\* Mutant of attack: the hit is written before the hands are checked to be
\* alive, so a call that returns HandIsNotAlive has changed the defender.
attack_hit_first(i, a, b) ==
    LET res == attack_result(i, a, b)
    IN  /\ players' =
            IF res = "Ok" THEN attack_players(i, a, b)
            ELSE IF res = "HandIsNotAlive"
                THEN [players EXCEPT ![i + 1].hands[b + 1] =
                         hit_value(@, players[1].hands[a + 1])]
            ELSE players
        /\ last' = returned("attack", res, AttackArgs(i, a, b))
        /\ UNCHANGED <<chopsticks, n_hands, rollover>>

\* ChopsticksState::attack.
attack(i, a, b) ==
    LET res == attack_result(i, a, b)
    IN  /\ players' = IF res = "Ok" THEN attack_players(i, a, b) ELSE players
        /\ last' = returned("attack", res, AttackArgs(i, a, b))
        /\ UNCHANGED <<chopsticks, n_hands, rollover>>

\* ChopsticksState::split.
split(new_hands) ==
    LET res == split_result(new_hands)
    IN  /\ players' = IF res = "Ok" THEN split_players(new_hands) ELSE players
        /\ last' = returned("split", res, SplitArgs(new_hands))
        /\ UNCHANGED <<chopsticks, n_hands, rollover>>

\* ChopsticksState::apply_action: dispatch on the variant, no other check.
apply_action(action) ==
    LET res == IF action.kind = "Attack"
               THEN attack_result(action.i, action.a, action.b)
               ELSE split_result(action.new_hands)
    IN  /\ players' =
            IF res # "Ok" THEN players
            ELSE IF action.kind = "Attack"
                THEN attack_players(action.i, action.a, action.b)
            ELSE split_players(action.new_hands)
        /\ last' = returned("apply_action", res, action)
        /\ UNCHANGED <<chopsticks, n_hands, rollover>>

AttackActions ==
    {AttackArgs(i, a, b) : i \in PlayerArgs, a \in HandArgs, b \in HandArgs}
SplitActions == {SplitArgs(h) : h \in HandsArgs}

InitCS ==
    /\ StateUntouched
    /\ SerialUntouched
    /\ GameUntouched
    /\ chopsticks \in Configs
    /\ players = build(chopsticks)
    /\ n_hands = chopsticks.n_hands
    /\ rollover = chopsticks.rollover
    /\ last = NoCall

DoAttack == \E i \in PlayerArgs, a \in HandArgs, b \in HandArgs : attack(i, a, b)
DoSplit == \E h \in HandsArgs : split(h)
DoApplyAction == \E action \in AttackActions \cup SplitActions : apply_action(action)

NextCS == (DoAttack \/ DoSplit \/ DoApplyAction) /\ UNCHANGED <<st_vars, ser_vars, gm_vars>>

SpecCS == InitCS /\ [][NextCS]_vars
CSUntouched ==
    /\ chopsticks = DefaultConfig
    /\ players = build(DefaultConfig)
    /\ n_hands = DefaultConfig.n_hands
    /\ rollover = DefaultConfig.rollover
    /\ last = NoCall

InitState ==
    /\ CSUntouched
    /\ SerialUntouched
    /\ GameUntouched
    /\ state_space \in StateSpaces
    /\ state_i = 0
    /\ state_players = State_default(state_space)
    /\ state_last = NoStateCall

NextState ==
    (DoPlayAttack \/ DoPlaySplit \/ DoPlayAction) /\ UNCHANGED <<cs_vars, ser_vars, gm_vars>>

SpecState == InitState /\ [][NextState]_vars

\* ------------------------------------------------- state::State: undo
\* State::undo_iterate_turn: while the game is on, i becomes element
\* (N_PLAYERS - i) of the cycled, reversed sequence of non-eliminated
\* indexes.
undo_iterate_turn(i, ps, c) ==
    LET alive == iter_player_indexes(ps)
        rev == [k \in 1..Len(alive) |-> alive[Len(alive) + 1 - k]]
    IN  IF get_status(i, ps).kind = "Turn"
        THEN rev[((c.N_PLAYERS - i) % Len(rev)) + 1]
        ELSE i

\* The players as undo_attack or undo_split writes them: hand b of player j
\* gives back the attacker's fingers modulo ROLLOVER, or player i takes
\* hands_0 again.
undone_players(ps, action, c) ==
    IF action.kind = "Attack"
        THEN [ps EXCEPT ![action.j + 1].hands[action.b + 1] =
                 (@ + (c.ROLLOVER - ps[action.i + 1].hands[action.a + 1]))
                     % c.ROLLOVER]
    ELSE [ps EXCEPT ![action.i + 1].hands = action.hands_0]

\* What undo_attack(i, j, a, b) returns on players ps; "panic" is get_status
\* panicking in undo_iterate_turn after the write.
undo_attack_result(i, ps, action, c) ==
    IF action.i >= Len(ps) \/ action.j >= Len(ps) THEN "PlayerIndexOutOfBounds"
    ELSE IF action.a >= N_HANDS \/ action.b >= N_HANDS
        THEN "HandIndexOutOfBounds"
    ELSE IF action.i = action.j THEN "PlayerAttackSelf"
    ELSE IF undone_players(ps, action, c)[action.j + 1].hands[action.b + 1] = 0
        THEN "HandIsNotAlive"
    ELSE IF get_status(i, undone_players(ps, action, c)).kind = "panic"
        THEN "panic"
    ELSE "Ok"

\* What undo_split(i, hands_0, hands_1) returns on players ps; "panic" is
\* players[i] with i out of bounds, or get_status panicking after the write.
undo_split_result(i, ps, action, c) ==
    IF action.i >= Len(ps) THEN "panic"
    ELSE IF action.hands_1 # ps[action.i + 1].hands THEN "ImproperContext"
    ELSE IF sort_unstable(action.hands_0) = sort_unstable(action.hands_1)
        THEN "MoveWithoutChange"
    ELSE IF SeqSum(action.hands_0) # SeqSum(action.hands_1)
        THEN "InvalidTotalFingers"
    ELSE IF \E k \in DOMAIN action.hands_0 :
                ~(action.hands_0[k] \in 1..(c.ROLLOVER - 1))
        THEN "InvalidFingerValue"
    ELSE IF get_status(i, undone_players(ps, action, c)).kind = "panic"
        THEN "panic"
    ELSE "Ok"

\* What undo_action(action) returns: the variant's undo, no other check.
undo_action_result(i, ps, action, c) ==
    IF action.kind = "Attack" THEN undo_attack_result(i, ps, action, c)
    ELSE undo_split_result(i, ps, action, c)

\* State::undo_attack, undo_split and undo_action, called as op: on Ok the
\* write and undo_iterate_turn; on a panic of get_status the write stays.
undo(op, action) ==
    LET res == undo_action_result(state_i, state_players, action, state_space)
        undone == undone_players(state_players, action, state_space)
        written == res = "Ok" \/ (res = "panic" /\ action.i < Len(state_players))
    IN  /\ state_players' = IF written THEN undone ELSE state_players
        /\ state_i' = IF res = "Ok"
                          THEN undo_iterate_turn(state_i, undone, state_space)
                      ELSE state_i
        /\ state_last' = state_returned(op, res, action)
        /\ UNCHANGED state_space

DoUndoAttack ==
    /\ StateUsable
    /\ \E action \in AttackActionArgs : undo("undo_attack", action)
DoUndoSplit ==
    /\ StateUsable
    /\ \E action \in SplitActionArgs : undo("undo_split", action)
DoUndoAction ==
    /\ StateUsable
    /\ \E action \in AttackActionArgs \cup SplitActionArgs :
          undo("undo_action", action)

\* A State on which actions are played and undone.
NextUndo ==
    (DoPlayAction \/ DoUndoAttack \/ DoUndoSplit \/ DoUndoAction)
        /\ UNCHANGED <<cs_vars, ser_vars, gm_vars>>

SpecUndo == InitState /\ [][NextUndo]_vars

\* ----------------------------------------------- games played by strategy
\* The StateSpace<N> implementations whose games are played out.
GameSpaces ==
    {c \in [N_PLAYERS : 2..MaxPlayers, ROLLOVER : 2..MaxRollover,
            INITIAL_FINGERS : 1..MaxInitial] :
        /\ c.INITIAL_FINGERS < c.ROLLOVER
        /\ (c.ROLLOVER ^ c.N_PLAYERS) * c.N_PLAYERS <= MaxGameVolume}

\* One turn of a game::Game: while the status is Turn, get_action asks the
\* strategy (Random) for an action and play_action plays it on the state;
\* the drivers expect Ok, so nothing is played after an error or a panic.
StrategyTurn ==
    /\ state_last.res = "Ok"
    /\ get_status(state_i, state_players).kind = "Turn"
    /\ \E action \in Random_get_action :
          IF action.kind = "panic"
              THEN /\ state_last' = [NoStateCall EXCEPT !.op = "get_action",
                                                       !.res = "panic"]
                   /\ UNCHANGED <<state_space, state_i, state_players>>
          ELSE play_action(action)

InitGame ==
    /\ CSUntouched
    /\ SerialUntouched
    /\ GameUntouched
    /\ state_space \in GameSpaces
    /\ state_i = 0
    /\ state_players = State_default(state_space)
    /\ state_last = NoStateCall

NextGame == StrategyTurn /\ UNCHANGED <<cs_vars, ser_vars, gm_vars>>

SpecGame == InitGame /\ [][NextGame]_vars

\* ------------------------------------------------- serializers in use
SerialSubjects(c) ==
    PlayerSubjects(c) \cup PlayerSerialSubjects(c)
        \cup ActionSubjects(c) \cup ActionSerialSubjects(c)
        \cup StateActionSubjects(c)

InitSerial ==
    /\ CSUntouched
    /\ StateUntouched
    /\ GameUntouched
    /\ serial_space \in SerialSpaces
    /\ subject \in SerialSubjects(serial_space)
    /\ image = subject
    /\ applied = <<>>

NextSerial ==
    (DoPlayerSerialize \/ DoPlayerFromSerial \/ DoActionSerialize
        \/ DoActionFromSerial \/ DoSerializeStateAction)
        /\ UNCHANGED <<cs_vars, st_vars, gm_vars>>

SpecSerial == InitSerial /\ [][NextSerial]_vars

\* ------------------------------------------- serializing game positions
\* The StateSpace<N> implementations whose games are serialized while played.
GameSerialSpaces ==
    {c \in GameSpaces : (c.ROLLOVER ^ c.N_PLAYERS) * c.N_PLAYERS <= MaxSerialVolume}

InitGameSerial ==
    /\ InitGame
    /\ state_space \in GameSerialSpaces

\* A game in which any position met may be serialized.
NextGameSerial ==
    \/ StrategyTurn /\ UNCHANGED <<cs_vars, ser_vars, gm_vars>>
    \/ DoSerializeState /\ UNCHANGED <<cs_vars, st_vars, gm_vars>>

SpecGameSerial == InitGameSerial /\ [][NextGameSerial]_vars


\* ------------------------------------------------- strategies at play
\* PureMonteCarlo::get_action called on the state, whatever its status, and
\* the action it returns played.
PureMonteCarloTurn ==
    /\ state_last.res = "Ok"
    /\ \E n_sims \in 0..MaxSims :
        \E action \in PureMonteCarlo_get_action(n_sims) :
          IF action.kind = "panic"
              THEN /\ state_last' = [NoStateCall EXCEPT
                                        !.op = "PureMonteCarlo::get_action",
                                        !.res = "panic"]
                   /\ UNCHANGED <<state_space, state_i, state_players>>
          ELSE play_action(action)

\* Games whose turns are decided by Random or by PureMonteCarlo.
NextStrategies ==
    (StrategyTurn \/ PureMonteCarloTurn) /\ UNCHANGED <<cs_vars, ser_vars, gm_vars>>

SpecStrategies == InitGame /\ [][NextStrategies]_vars

\* ------------------------------------------ PureMonteCarlo asked alone
\* PureMonteCarlo::get_action called on the state; the aggregates it
\* computed and what it returned are kept.
DoPureMonteCarlo ==
    /\ state_last.res = "Ok"
    /\ \E n_sims \in 0..MaxSims :
        \E action \in PureMonteCarlo_get_action(n_sims) :
            pmc_last' = [n_sims |-> n_sims,
                         keys |-> IF action.kind = "panic" THEN <<>>
                                  ELSE PureMonteCarlo_keys(n_sims),
                         action |-> action]
    /\ UNCHANGED <<st_vars, game, ranks, history>>

\* A game played at random up to some position, on which PureMonteCarlo is
\* then asked for its action.
NextMonteCarlo ==
    \/ StrategyTurn /\ pmc_last = NoMonteCarlo
           /\ UNCHANGED <<cs_vars, ser_vars, gm_vars>>
    \/ DoPureMonteCarlo /\ UNCHANGED <<cs_vars, ser_vars>>

SpecMonteCarlo == InitGame /\ [][NextMonteCarlo]_vars

\* ------------------------------------------------ game::Game at play
\* The drivers that hold one strategy: game::single_strategy::SingleStrategy
\* (its get_rankings is the trait's) and game::single_player::SinglePlayer
\* (it has a get_rankings of its own).
GameKinds == {"SingleStrategy", "SinglePlayer"}

\* SingleStrategy::new / SinglePlayer::new(state, ..) on the State as play
\* left it: the history is empty.
DoNewGame(kind) ==
    /\ game = NoGame
    /\ state_last.res = "Ok"
    /\ game' = [NoGame EXCEPT !.kind = kind]
    /\ history' = <<>>
    /\ UNCHANGED <<st_vars, ranks, pmc_last>>

\* get_rankings is called: ranks = [N; N] (SinglePlayer: [None; N], None
\* written N here).
DoGetRankings ==
    /\ game.kind \in GameKinds
    /\ game.at = "new"
    /\ game' = [game EXCEPT !.at = "loop"]
    /\ ranks' = [k \in 1..state_space.N_PLAYERS |-> state_space.N_PLAYERS]
    /\ UNCHANGED <<st_vars, history, pmc_last>>

\* play_action as get_rankings calls it: Game::get_rankings calls the
\* driver's play_action, which pushes the action to the history and plays
\* it; SinglePlayer::get_rankings calls state.play_action itself.
loop_history(action) ==
    IF game.kind = "SingleStrategy" THEN Append(history, action) ELSE history

\* One turn of the while loop of get_rankings: it returns when the status is
\* not Turn or is_loop_state() holds (which panics where it is not
\* implemented); else the strategy (Random) gives an action, it is played
\* (expect: a rejected action panics) and the ranks are written.
RankingsTurn ==
    /\ game.at = "loop"
    /\ UNCHANGED pmc_last
    /\ IF get_status(state_i, state_players).kind # "Turn"
           THEN /\ game' = [game EXCEPT !.at =
                              IF get_status(state_i, state_players).kind = "Over"
                                  THEN "returned" ELSE "panic"]
                /\ UNCHANGED <<st_vars, ranks, history>>
       ELSE IF ~is_loop_state_implemented
           THEN /\ game' = [game EXCEPT !.at = "panic"]
                /\ UNCHANGED <<st_vars, ranks, history>>
       ELSE IF is_loop_state(state_players)
           THEN /\ game' = [game EXCEPT !.at = "returned"]
                /\ UNCHANGED <<st_vars, ranks, history>>
       ELSE \E action \in Random_get_action :
               IF action.kind = "panic"
                   THEN /\ game' = [game EXCEPT !.at = "panic"]
                        /\ UNCHANGED <<st_vars, ranks, history>>
               ELSE /\ Len(loop_history(action)) <= MaxHistory
                    /\ history' = loop_history(action)
                    /\ play_action(action)
                    /\ IF play_action_result(action) = "Ok"
                           THEN /\ ranks' = ranks_written(ranks, state_players')
                                /\ UNCHANGED game
                       ELSE /\ game' = [game EXCEPT !.at = "panic"]
                            /\ UNCHANGED ranks

\* MaxRosterVolume bounds the configurations whose rosters are ranked.
MaxRosterVolume == 162

\* The StateSpace<N> implementations whose games are ranked.
RankingSpaces ==
    {c \in GameSpaces : (c.ROLLOVER ^ c.N_PLAYERS) * c.N_PLAYERS <= MaxRankingVolume}

InitRankings ==
    /\ InitGame
    /\ state_space \in RankingSpaces

\* A State played at random, then made into a game whose get_rankings runs.
NextRankings ==
    \/ StrategyTurn /\ game = NoGame /\ UNCHANGED <<cs_vars, ser_vars, gm_vars>>
    \/ (\E kind \in GameKinds : DoNewGame(kind)) /\ UNCHANGED <<cs_vars, ser_vars>>
    \/ DoGetRankings /\ UNCHANGED <<cs_vars, ser_vars>>
    \/ RankingsTurn /\ UNCHANGED <<cs_vars, ser_vars>>

SpecRankings == InitRankings /\ [][NextRankings]_vars

\* ------------------------------------------ chopsticks::Chopsticks setters
\* What a setter of the builder returns, as the record of the last call.
set_returned(op, res) == [NoCall EXCEPT !.op = op, !.res = res]

\* Chopsticks::with_n_players: Err(ValueError) if 0.
with_n_players(n) ==
    LET res == IF n = 0 THEN "ValueError" ELSE "Ok"
    IN  /\ chopsticks' = IF res = "Ok" THEN [chopsticks EXCEPT !.n_players = n]
                         ELSE chopsticks
        /\ last' = set_returned("with_n_players", res)
        /\ UNCHANGED <<players, n_hands, rollover>>

\* Chopsticks::with_n_hands: Err(ValueError) if 0.
with_n_hands(n) ==
    LET res == IF n = 0 THEN "ValueError" ELSE "Ok"
    IN  /\ chopsticks' = IF res = "Ok" THEN [chopsticks EXCEPT !.n_hands = n]
                         ELSE chopsticks
        /\ last' = set_returned("with_n_hands", res)
        /\ UNCHANGED <<players, n_hands, rollover>>

\* Chopsticks::with_rollover (lib.rs: with_fingers): Err(ValueError) if 0 or
\* not above the initial value.
with_rollover(r) ==
    LET res == IF r = 0 \/ r <= chopsticks.initial_rollover
               THEN "ValueError" ELSE "Ok"
    IN  /\ chopsticks' = IF res = "Ok" THEN [chopsticks EXCEPT !.rollover = r]
                         ELSE chopsticks
        /\ last' = set_returned("with_rollover", res)
        /\ UNCHANGED <<players, n_hands, rollover>>

\* Chopsticks::with_initial_rollover (lib.rs: with_initial_fingers):
\* Err(ValueError) if not below the rollover.
with_initial_rollover(v) ==
    LET res == IF v >= chopsticks.rollover THEN "ValueError" ELSE "Ok"
    IN  /\ chopsticks' = IF res = "Ok"
                             THEN [chopsticks EXCEPT !.initial_rollover = v]
                         ELSE chopsticks
        /\ last' = set_returned("with_initial_rollover", res)
        /\ UNCHANGED <<players, n_hands, rollover>>

\* Chopsticks::build on the builder as the setters left it.
DoBuild ==
    /\ players' = build(chopsticks)
    /\ n_hands' = chopsticks.n_hands
    /\ rollover' = chopsticks.rollover
    /\ last' = NoCall
    /\ UNCHANGED chopsticks

\* Chopsticks::default(), and the state it builds.
InitBuilder ==
    /\ CSUntouched
    /\ StateUntouched
    /\ SerialUntouched
    /\ GameUntouched

\* MaxSetting bounds the values the setters are called with.
MaxSetting == 2

DoWithNPlayers == \E n \in 0..MaxSetting : with_n_players(n)
DoWithNHands == \E n \in 0..MaxSetting : with_n_hands(n)
DoWithRollover == \E r \in 0..MaxSetting : with_rollover(r)
DoWithInitialRollover == \E v \in 0..MaxSetting : with_initial_rollover(v)

NextBuilder ==
    /\ DoWithNPlayers \/ DoWithNHands \/ DoWithRollover \/ DoWithInitialRollover
           \/ DoBuild
    /\ UNCHANGED <<st_vars, ser_vars, gm_vars>>

SpecBuilder == InitBuilder /\ [][NextBuilder]_vars

\* ------------------------------------- chopsticks::Chopsticks serializers
\* Chopsticks::serialize_hands: the fold serial * rollover + fingers.
serialize_hands(hands, c) == fold_hands(0, hands, [ROLLOVER |-> c.rollover])

\* Chopsticks::serialize_action: (i * n_hands + a) * n_hands + b for an
\* attack, serialize_hands(new_hands) * split_offset for a split.
serialize_action(action, c) ==
    IF action.kind = "Attack"
        THEN (action.i * c.n_hands + action.a) * c.n_hands + action.b
    ELSE serialize_hands(action.new_hands, c) * c.split_offset

\* The actions of a configuration: attacks with i < n_players and
\* a, b < n_hands, splits with n_hands hands in [0, rollover).
ActionDomain(c) ==
    {AttackArgs(i, a, b) : i \in 0..(c.n_players - 1),
                           a \in 0..(c.n_hands - 1), b \in 0..(c.n_hands - 1)}
        \cup {SplitArgs(h) : h \in [1..c.n_hands -> 0..(c.rollover - 1)]}

\* serialize_action called on the builder as the setters left it: last
\* records the action, image the serial returned.
DoSerializeAction ==
    \E action \in ActionDomain(chopsticks) :
        /\ last' = [action EXCEPT !.op = "serialize_action"]
        /\ image' = SerialSubject("ActionSerial",
                                  serialize_action(action, chopsticks))
        /\ UNCHANGED <<chopsticks, players, n_hands, rollover,
                       serial_space, subject, applied>>

\* A builder configured by its setters, whose serializer is used along
\* the way.
NextConfigSerial ==
    \/ (DoWithNPlayers \/ DoWithNHands \/ DoWithRollover
            \/ DoWithInitialRollover)
        /\ UNCHANGED <<st_vars, ser_vars, gm_vars>>
    \/ DoSerializeAction /\ UNCHANGED <<st_vars, gm_vars>>

SpecConfigSerial == InitBuilder /\ [][NextConfigSerial]_vars

\* ------------------------------------- game::single_player (game.rs)
RECURSIVE to_string(_)
\* u32::to_string: the decimal digits of a hand value, most significant
\* first.
to_string(v) == IF v < 10 THEN <<v>> ELSE to_string(v \div 10) \o <<v % 10>>

\* ChopsticksState::abbreviation: the hands of the roster, player after
\* player, each written in decimal (one digit each for a rollover up to 10).
abbreviation(ps) ==
    Flatten([k \in 1..Len(ps) |->
        Flatten([h \in 1..Len(ps[k].hands) |-> to_string(ps[k].hands[h])])])

\* Status::Turn of the state game.rs drives: more than one player is in the
\* roster.
status_is_turn(ps) == Len(ps) >= 2

\* The configurations whose rosters are ranked.
RosterConfigs ==
    {c \in Configs : /\ c.n_players >= 2
                     /\ c.initial_rollover >= 1
                     /\ (c.rollover ^ (c.n_hands * c.n_players)) * c.n_players
                            <= MaxRosterVolume}

\* SinglePlayer::new(state, player) on the state as play left it.
DoNewSinglePlayer ==
    /\ game = NoGame
    /\ game' = [NoGame EXCEPT !.kind = "game::single_player"]
    /\ history' = <<>>
    /\ UNCHANGED <<cs_vars, ranks, pmc_last>>

\* get_rankings is called: ranks = [None; N] (None written 0) and player_ids
\* is the set of the ids in the roster.
DoGetRosterRankings ==
    /\ game.kind = "game::single_player"
    /\ game.at = "new"
    /\ game' = [game EXCEPT !.at = "loop", !.player_ids = get_player_ids(players)]
    /\ ranks' = [k \in 1..chopsticks.n_players |-> 0]
    /\ UNCHANGED <<cs_vars, history, pmc_last>>

\* Mutant of ranks_of_difference: an id that is gone gets, once, the number
\* of ids gone so far.
ranks_of_difference_counting(rk, player_ids, new_player_ids) ==
    [k \in DOMAIN rk |->
        IF (k - 1) \in (player_ids \ new_player_ids) /\ rk[k] = 0
            THEN Cardinality(player_ids \ new_player_ids) ELSE rk[k]]

\* for &id in player_ids.difference(&new_player_ids): ranks[id] becomes
\* Some(player_ids.len()).
ranks_of_difference(rk, player_ids, new_player_ids) ==
    [k \in DOMAIN rk |->
        IF (k - 1) \in (player_ids \ new_player_ids)
            THEN Cardinality(player_ids) ELSE rk[k]]

\* One turn of the while loop of get_rankings: it returns when the status is
\* not Turn; else the controller gives an action of the player to move that
\* the state accepts, it is played on the state, and the loop breaks at the
\* abbreviation "0102" or writes the ranks of the ids that are gone.
RosterTurn ==
    /\ game.kind = "game::single_player"
    /\ game.at = "loop"
    /\ UNCHANGED <<history, pmc_last>>
    /\ IF ~status_is_turn(players)
           THEN /\ game' = [game EXCEPT !.at = "returned"]
                /\ UNCHANGED <<cs_vars, ranks>>
       ELSE /\ \E action \in AttackActions \cup SplitActions :
                  /\ apply_action(action)
                  /\ last'.res = "Ok"
            /\ IF abbreviation(players') = <<0, 1, 0, 2>>
                   THEN /\ game' = [game EXCEPT !.at = "returned"]
                        /\ UNCHANGED ranks
               ELSE /\ ranks' = ranks_of_difference(ranks, game.player_ids,
                                                    get_player_ids(players'))
                    /\ UNCHANGED game

InitRoster ==
    /\ InitCS
    /\ chopsticks \in RosterConfigs

\* A ChopsticksState played on, then handed to a SinglePlayer whose
\* get_rankings runs.
NextRoster ==
    \/ DoApplyAction /\ game = NoGame /\ UNCHANGED <<st_vars, ser_vars, gm_vars>>
    \/ DoNewSinglePlayer /\ UNCHANGED <<st_vars, ser_vars>>
    \/ DoGetRosterRankings /\ UNCHANGED <<st_vars, ser_vars>>
    \/ RosterTurn /\ UNCHANGED <<st_vars, ser_vars>>

SpecRoster == InitRoster /\ [][NextRoster]_vars

\* --------------------------------------------------- random playouts
\* state_space::chopsticks::Chopsticks, the only StateSpace is_loop_state is
\* implemented for.
ChopsticksSpace == [N_PLAYERS |-> 2, ROLLOVER |-> 5, INITIAL_FINGERS |-> 1]

InitPlayout ==
    /\ InitGame
    /\ state_space = ChopsticksSpace

\* A Chopsticks State played at random, then handed to a SinglePlayer whose
\* get_rankings plays it out.
NextPlayout ==
    \/ StrategyTurn /\ game = NoGame /\ UNCHANGED <<cs_vars, ser_vars, gm_vars>>
    \/ DoNewGame("SinglePlayer") /\ UNCHANGED <<cs_vars, ser_vars>>
    \/ DoGetRankings /\ UNCHANGED <<cs_vars, ser_vars>>
    \/ RankingsTurn /\ UNCHANGED <<cs_vars, ser_vars>>

\* MaxDistance bounds the number of turns looked ahead from a position.
MaxDistance == 4

\* A position: the index of the player to move and the players.
Position(i, ps) == [i |-> i, players |-> ps]

\* A position at which the loop of get_rankings stops: the status is Over or
\* is_loop_state() holds.
loop_stops(at) ==
    get_status(at.i, at.players).kind = "Over" \/ is_loop_state(at.players)

\* The positions one action of iter_actions() leads to.
played_positions(at) ==
    IF get_status(at.i, at.players).kind # "Turn" THEN {}
    ELSE {Position(play_iterate_turn(at.i, played), played) :
             played \in {played_players(at.players, action, ChopsticksSpace) :
                 action \in Range(iter_actions_at(at.i, at.players,
                                                  ChopsticksSpace))}}

RECURSIVE loop_stops_within(_, _)
\* Some sequence of at most n actions, each of iter_actions() at its
\* position, leads from a position to one at which the loop stops.
loop_stops_within(n, at) ==
    \/ loop_stops(at)
    \/ n > 0 /\ \E next \in played_positions(at) : loop_stops_within(n - 1, next)

\* The loop is at a position it can stop at after d turns and no fewer.
TurnsLeft(d) ==
    /\ game.at = "loop"
    /\ \E at \in {Position(state_i, state_players)} :
          loop_stops_within(d, at) /\ ~loop_stops_within(d - 1, at)

\* A turn of the loop played from a position with d turns left to one with
\* fewer.
RankingsTurnFrom(d) ==
    /\ TurnsLeft(d)
    /\ RankingsTurn
    /\ UNCHANGED <<cs_vars, ser_vars>>
    /\ \E to \in {Position(state_i', state_players')} :
          loop_stops_within(d - 1, to)

\* The loop goes on as long as it has not returned (weak fairness of its
\* turn, which is enabled exactly while game.at = "loop"), and Random
\* chooses uniformly among the actions of iter_actions(): an action that is
\* offered again and again is chosen again and again (strong fairness of
\* RankingsTurnFrom(d), which is enabled exactly when TurnsLeft(d) holds).
UniformRandom ==
    /\ <>[](game.at = "loop")
          => []<><<RankingsTurn /\ UNCHANGED <<cs_vars, ser_vars>>>>_vars
    /\ \A d \in 1..MaxDistance :
          []<>TurnsLeft(d) => []<><<RankingsTurnFrom(d)>>_vars

SpecPlayout == InitPlayout /\ [][NextPlayout]_vars /\ UniformRandom

\* ---------------------------------------------------------------- claims
\* Helpers of the statements below.
Ids(ps) == {ps[k].id : k \in DOMAIN ps}
HandCount(hands, v) == Cardinality({k \in DOMAIN hands : hands[k] = v})
SameHands(g, h) ==
    /\ Len(g) = Len(h)
    /\ \A v \in Range(g) \cup Range(h) : HandCount(g, v) = HandCount(h, v)
Ascending(h) == \A k \in 1..(Len(h) - 1) : h[k] <= h[k + 1]
AllZero(h) == \A k \in DOMAIN h : h[k] = 0
WellFormed(ps) == \A k \in DOMAIN ps : Len(ps[k].hands) = n_hands
AppliedAttack == last'.res = "Ok" /\ last'.kind = "Attack"
AppliedSplit == last'.res = "Ok" /\ last'.kind = "Split"
C1_AttackStep ==
    AppliedAttack =>
        LET mover == players[1]
            defender == players[last'.i + 1]
            old == defender.hands[last'.b + 1]
            new == (old + mover.hands[last'.a + 1]) % rollover
            hit == [defender.hands EXCEPT ![last'.b + 1] = new]
        IN  /\ new # old
            /\ \A p \in Range(players) :
                   p.id # defender.id => p \in Range(players')
            /\ \A q \in Range(players') :
                   IF q.id = defender.id THEN SameHands(q.hands, hit)
                   ELSE q \in Range(players)
            /\ defender.id \notin Ids(players') => AllZero(hit)

\* C1: a successful attack(i, a, b) changes exactly one hand value: the
\* defender's hand b becomes (old defender hand + mover's hand a) mod rollover
\* (the defender's hands, re-sorted, are the old ones with that one value
\* replaced; a defender that disappears had every other hand 0). Every hand of
\* the mover and of every other player keeps its value.
C1_AttackChangesOneHand == [][C1_AttackStep]_vars

\* An attack that wrapped a hand to 0 and so moved it to the front of the
\* defender's sorted hands (the new mover), as in tests::attack_with_four.
C1_Witness ==
    /\ last.res = "Ok" /\ last.kind = "Attack" /\ last.b = 1
    /\ Len(players) = 2 /\ rollover = 5
    /\ players[1].hands = <<0, 1>>

\* The hand value of 0-based index k, or -1 when the player has no such hand.
HandValue(p, k) == IF k < Len(p.hands) THEN p.hands[k + 1] ELSE -1

C2_claimed(i, a, b) ==
    IF i = 0 \/ i >= Len(players) THEN "PlayerIndexOutOfBounds"
    ELSE IF ~(a \in 0..(n_hands - 1)) \/ ~(b \in 0..(n_hands - 1))
        THEN "HandIndexOutOfBounds"
    ELSE IF HandValue(players[1], a) = 0 \/ HandValue(players[i + 1], b) = 0
        THEN "HandIsNotAlive"
    ELSE "Ok"

\* C2: attack(i, a, b) fails with PlayerIndexOutOfBounds when i == 0 or
\* i >= roster length; otherwise with HandIndexOutOfBounds when a or b is not a
\* valid hand index; otherwise with HandIsNotAlive when the mover's hand a or
\* the defender's hand b is 0; and it succeeds exactly when none applies
\* (stated for positions built with 0 < initial fingers).
C2_AttackErrorPrecedence ==
    chopsticks.initial_rollover > 0 =>
        \A i \in PlayerArgs, a \in HandArgs, b \in HandArgs :
            attack_result(i, a, b) = C2_claimed(i, a, b)

\* h with the values at k and k + 1 exchanged; every reordering of a Vec is a
\* chain of such exchanges, each of them a tried Vec again.
Swapped(h, k) == [h EXCEPT ![k] = h[k + 1], ![k + 1] = h[k]]
C3_claimed(new_hands) ==
    IF SameHands(new_hands, players[1].hands) THEN "MoveWithoutChange"
    ELSE IF SeqSum(new_hands) # SeqSum(players[1].hands)
        THEN "InvalidTotalRollover"
    ELSE IF \E k \in DOMAIN new_hands : new_hands[k] < 1 \/ new_hands[k] >= rollover
        THEN "InvalidFingerValue"
    ELSE "Ok"

\* C3: split(new_hands) checks its failures in order: MoveWithoutChange when
\* the sorted new_hands equals the mover's hands; otherwise
\* InvalidTotalRollover when the sums differ; otherwise InvalidFingerValue when
\* a value lies outside [1, rollover). The order in which the caller lists the
\* hands does not matter; with hands [1,1], [0,2] and [2,0] give
\* InvalidFingerValue and [1,2] gives InvalidTotalRollover.
C3_SplitErrorPrecedence ==
    /\ \A h \in HandsArgs :
        /\ split_result(h) = C3_claimed(h)
        /\ \A k \in 1..(Len(h) - 1) : split_result(Swapped(h, k)) = split_result(h)
    /\ (players[1].hands = <<1, 1>> /\ rollover = 5) =>
        /\ split_result(<<0, 2>>) = "InvalidFingerValue"
        /\ split_result(<<2, 0>>) = "InvalidFingerValue"
        /\ split_result(<<1, 2>>) = "InvalidTotalRollover"

\* A split refused for its total although it also holds a value out of range:
\* the total is checked first.
C3_Witness ==
    /\ last.op = "split" /\ last.res = "InvalidTotalRollover"
    /\ players[1].hands = <<1, 1>> /\ rollover = 5
    /\ split_result(<<0, 3>>) = "InvalidTotalRollover"
    /\ split_result(<<2, 0>>) = "InvalidFingerValue"

C4_SplitStep ==
    AppliedSplit =>
        LET mover == players[1]
        IN  /\ Len(players') = Len(players)
            /\ Ids(players') = Ids(players)
            /\ \A q \in Range(players') :
                   IF q.id = mover.id
                   THEN /\ SameHands(q.hands, last'.new_hands)
                        /\ Ascending(q.hands)
                        /\ SeqSum(q.hands) = SeqSum(mover.hands)
                        /\ \A k \in DOMAIN q.hands :
                               1 <= q.hands[k] /\ q.hands[k] < rollover
                   ELSE q \in Range(players)

\* C4: a successful split(new_hands) replaces the mover's hands by new_hands
\* sorted ascending, keeps the sum of the mover's hands, leaves every new hand
\* in [1, rollover), removes nobody and changes no other player's hands.
C4_SplitEffect == [][C4_SplitStep]_vars

\* A split whose Vec was given in descending order was applied.
C4_Witness ==
    /\ last.res = "Ok" /\ last.kind = "Split"
    /\ last.new_hands = <<3, 1>>
    /\ players[Len(players)].hands = <<1, 3>>

C5_Roster ==
    chopsticks.initial_rollover > 0 =>
        /\ Len(players) >= 1
        /\ \A p \in Range(players) : ~AllZero(p.hands)

C5_RemovalStep ==
    chopsticks.initial_rollover > 0 =>
        \A p \in Range(players) :
            p.id \notin Ids(players') =>
                /\ AppliedAttack
                /\ p = players[last'.i + 1]
                /\ AllZero([p.hands EXCEPT ![last'.b + 1] =
                       (@ + players[1].hands[last'.a + 1]) % rollover])

\* C5: from build() with 0 < initial fingers, the roster is never empty and
\* holds exactly the players with a non-zero hand: a player leaves it only by
\* the attack that makes all its hands 0, and nobody with all hands 0 stays.
C5_RosterIsTheAlivePlayers == []C5_Roster /\ [][C5_RemovalStep]_vars

\* A defender with a dead hand was attacked on its live hand and is gone,
\* while a survivor with a dead hand (hands 0, x) is still in the roster.
C5_Witness ==
    /\ last.res = "Ok" /\ last.kind = "Attack"
    /\ Len(players) < chopsticks.n_players
    /\ chopsticks.n_hands = 2 /\ WellFormed(players)
    /\ \E p \in Range(players) : p.hands[1] = 0 /\ p.hands[2] # 0

\* The id that follows the mover in rotation order among those in `alive`.
NextInRotation(ps, alive) ==
    LET n == Len(ps)
        k == CHOOSE k \in 1..n :
                /\ ps[(k % n) + 1].id \in alive
                /\ \A j \in 1..(k - 1) : ps[(j % n) + 1].id \notin alive
    IN  ps[(k % n) + 1].id

C6_RotationStep ==
    /\ (AppliedAttack \/ AppliedSplit) =>
        /\ players'[1].id = NextInRotation(players, Ids(players'))
        /\ players'[Len(players')].id = players[1].id
        /\ (Len(players) = 2 /\ Len(players') = 2) =>
               /\ players'[1].id = players[2].id
               /\ players'[1].id # players[1].id
    /\ (/\ players = build(DefaultConfig) /\ rollover = 5
        /\ last' = returned("attack", "Ok", AttackArgs(1, 0, 0))) =>
           players'[1] = [id |-> 1, hands |-> <<1, 2>>]

\* C6: after a successful attack or split the new mover is the player that
\* followed the old mover in rotation order, skipping a defender the attack
\* eliminated; the old mover is at the back. With two players left before and
\* after, the turn passes to the other player; attack(1,0,0) from the default
\* initial position makes id 1 the mover with hands [1,2].
C6_Rotation == [][C6_RotationStep]_vars

\* Three players, the mover eliminated the next player: the turn went to the
\* third player, and the old mover is at the back.
C6_Witness ==
    /\ last.res = "Ok" /\ last.kind = "Attack" /\ last.i = 1
    /\ chopsticks.n_players = 3 /\ Len(players) = 2
    /\ Ids(players) = {0, 2}
    /\ players[1].id = 2 /\ players[2].id = 0

\* C7: every hand value lies in [0, rollover) and every player's hands are
\* sorted ascending.
C7_HandsInRangeAndSorted ==
    \A p \in Range(players) :
        /\ \A k \in DOMAIN p.hands : 0 <= p.hands[k] /\ p.hands[k] < rollover
        /\ Ascending(p.hands)

\* An attack on hand index 1 wrapped it to 0 exactly at the rollover, and the
\* defender (now the mover) was re-sorted to [0, 3].
C7_Witness ==
    /\ last.res = "Ok" /\ last.kind = "Attack" /\ last.b = 1
    /\ rollover = 5 /\ chopsticks.n_players = 2
    /\ players[1].hands = <<0, 3>>

\* C8: in every State reached by successful play_attack / play_split calls,
\* is_eliminated() is true of a player exactly when all of its hands are 0,
\* and get_status() is Over only when at most one player has a live hand.
LiveHand(player) == \E h \in DOMAIN player.hands : player.hands[h] # 0
C8_EliminatedIffNoLiveHand ==
    state_last.res = "Ok" =>
        /\ \A k \in DOMAIN state_players :
              Player_is_eliminated(state_players[k]) <=> ~LiveHand(state_players[k])
        /\ get_status(state_i, state_players).kind = "Over" =>
              Cardinality({k \in DOMAIN state_players : LiveHand(state_players[k])}) <= 1

\* C9: once exactly one player remains, every later attack, split or
\* apply_action returns an error and leaves the position unchanged (stated for
\* games of two or more players on positions whose hands all have n_hands
\* entries, with a new_hands of n_hands entries).
C9_NoMoveAfterOver ==
    [][(/\ Len(players) = 1 /\ chopsticks.n_players >= 2
        /\ WellFormed(players)
        /\ Len(last'.new_hands) \in {0, n_hands})
       => (last'.res # "Ok" /\ players' = players)]_vars

\* C10: play_action on a position with at most one non-eliminated player
\* returns GameIsOver for every action, also one out of turn or malformed;
\* otherwise an action of a player other than the mover returns WrongTurn;
\* a play_action that returned either left i and the players as they were,
\* and one that was applied was the mover's, with the game still on.
C10_Returns ==
    \A action \in AttackActionArgs \cup SplitActionArgs :
        /\ Len(iter_player_indexes(state_players)) <= 1
              => play_action_result(action) = "GameIsOver"
        /\ Len(iter_player_indexes(state_players)) > 1 /\ action.i # state_i
              => play_action_result(action) = "WrongTurn"
C10_Step ==
    state_last'.op = "play_action" =>
        /\ Len(iter_player_indexes(state_players)) <= 1
              => state_last'.res = "GameIsOver"
        /\ state_last'.res \in {"GameIsOver", "WrongTurn"}
              => UNCHANGED <<state_i, state_players>>
        /\ state_last'.res = "GameIsOver"
              => Len(iter_player_indexes(state_players)) <= 1
        /\ state_last'.res \in {"Ok", "panic"}
              => /\ state_last'.i = state_i
                 /\ Len(iter_player_indexes(state_players)) > 1
C10_PlayActionSequencing == []C10_Returns /\ [][C10_Step]_vars
C10_Witness ==
    /\ state_last.op = "play_action"
    /\ state_last.res = "GameIsOver"
    /\ Len(iter_player_indexes(state_players)) = 1
    /\ \E k \in DOMAIN state_players : state_players[k].hands # State_default(state_space)[k].hands

\* C11: in every reachable position whose status is Turn, every action that
\* iter_actions() yields is accepted by play_action (it returns Ok).
C11_IterActionsAccepted ==
    get_status(state_i, state_players).kind = "Turn" =>
        \A action \in Range(iter_actions) : play_action_result(action) = "Ok"

\* C12: the split enumerator is exhaustive: for every hand array h that
\* play_split accepts from the mover (another multiset than the current
\* hands, same sum, all values in [1, ROLLOVER)), iter_split_actions() yields
\* a Split whose new hands are h up to ordering.
C12_SplitsExhaustive ==
    \A h \in Hands1Args :
        play_split_result(state_i, state_players[state_i + 1].hands, h) = "Ok"
            => \E action \in Range(iter_split_actions) : SameHands(action.hands_1, h)

\* C13: in every reachable position whose status is Turn, iter_actions()
\* yields at least one action, so Random::get_action never panics on an
\* empty sequence of actions.
C13_SomeAction ==
    /\ get_status(state_i, state_players).kind = "Turn" => iter_actions # <<>>
    /\ state_last.op # "get_action"

\* A position, reached by play, whose status is Turn and that has no split
\* and a single attack to offer.
C13_Witness ==
    /\ state_last.op = "play_action" /\ state_last.res = "Ok"
    /\ get_status(state_i, state_players).kind = "Turn"
    /\ iter_split_actions = <<>>
    /\ Len(iter_actions) = 1

\* C14 as claimed: every position whose status is Turn has a legal split:
\* some hands_1 for which the mover's play_split succeeds, and a non-empty
\* iter_split_actions().
MoverHands == state_players[state_i + 1].hands
LegalSplits == {h \in Hands1Args : play_split_result(state_i, MoverHands, h) = "Ok"}
C14_SomeLegalSplit ==
    get_status(state_i, state_players).kind = "Turn" =>
        LegalSplits # {} /\ iter_split_actions # <<>>

\* The number of pairs p <= q of values in [1, ROLLOVER) with p + q = total.
PairsOfTotal(total) ==
    LET lo == IF total - (state_space.ROLLOVER - 1) > 1
                  THEN total - (state_space.ROLLOVER - 1) ELSE 1
        hi == total \div 2
    IN  IF hi >= lo THEN hi - lo + 1 ELSE 0

\* C14 as amended: in a position whose status is Turn the mover has a legal
\* split exactly when its total has more pairs of values in [1, ROLLOVER)
\* than the pair it holds (none from [1, 1]); iter_split_actions() is
\* non-empty only then; and the mover always has a legal attack: its last
\* hand on the last hand of some other player.
C14_LegalSplitOrAttack ==
    get_status(state_i, state_players).kind = "Turn" =>
        /\ LegalSplits # {} <=>
              PairsOfTotal(SeqSum(MoverHands))
                  > (IF \A k \in DOMAIN MoverHands : MoverHands[k] >= 1 THEN 1 ELSE 0)
        /\ iter_split_actions # <<>> => LegalSplits # {}
        /\ \E j \in 0..(Len(state_players) - 1) :
              play_attack_result(state_i, j, N_HANDS - 1, N_HANDS - 1) = "Ok"

\* A position reached by play, the game still on, in which the mover holds
\* [1, 1] and has no legal split.
C14_Witness ==
    /\ state_last.op = "play_action" /\ state_last.res = "Ok"
    /\ get_status(state_i, state_players).kind = "Turn"
    /\ LegalSplits = {}
    /\ MoverHands = <<1, 1>>

\* C15: for every hand array h with values in [0, ROLLOVER), Player::serialize
\* gives the base-ROLLOVER numeral with the first hand most significant, a
\* value in 0 .. ROLLOVER^N_HANDS - 1 that grows with the lexicographic order
\* of h, and Player::from_serial of it gives h back; every serial of that
\* range is the serial of the hands from_serial makes of it.
Numeral(h, c) == h[1] * c.ROLLOVER + h[2]
LexLess(g, h) == g[1] < h[1] \/ (g[1] = h[1] /\ g[2] < h[2])
C15_PlayerSerialBijection ==
    /\ (subject.kind = "Player" /\ applied = <<"Player::serialize">>) =>
          /\ image.serial = Numeral(subject.hands, serial_space)
          /\ image.serial \in 0..(serial_space.ROLLOVER ^ N_HANDS - 1)
          /\ \A g \in HandArrays(serial_space) :
                LexLess(g, subject.hands)
                    <=> Player_serialize(g, serial_space) < image.serial
    /\ (subject.kind = "Player" /\ Len(applied) = 2) => image.hands = subject.hands
    /\ (subject.kind = "PlayerSerial" /\ applied = <<"Player::from_serial">>) =>
          image.hands \in HandArrays(serial_space)
    /\ (subject.kind = "PlayerSerial" /\ Len(applied) = 2) =>
          image.serial = subject.serial

\* The hands [3, 0] went through serialize (15 with ROLLOVER 5) and back.
C15_Witness ==
    /\ serial_space.ROLLOVER = 5
    /\ subject.kind = "Player" /\ subject.hands = <<3, 0>>
    /\ applied = <<"Player::serialize", "Player::from_serial">>
    /\ image.hands = <<3, 0>>

\* C16: for every Attack {i, a, b} with i < N_PLAYERS and a, b < N_HANDS and
\* every Split {hands} with hands in [0, ROLLOVER), from_serial of the
\* action's serial is the action, and no other such action has that serial.
C16_ActionRoundTrip ==
    subject.kind \in {"Attack", "Split"} =>
        /\ applied = <<"Action::serialize">> =>
              \A other \in ActionSubjects(serial_space) \ {subject} :
                  Action_serialize(other, serial_space) # image.serial
        /\ Len(applied) = 2 => image = subject

\* C17: an Attack {i, a, b} has the serial (i * N_HANDS + a) * N_HANDS + b,
\* which lies in [0, ATTACK_BASE) with ATTACK_BASE = N_PLAYERS * N_HANDS *
\* N_HANDS; a Split has the serial ATTACK_BASE + the numeral of its hands,
\* which lies in [ATTACK_BASE, ATTACK_BASE + ROLLOVER^N_HANDS).
C17_ActionSerialRanges ==
    LET base == serial_space.N_PLAYERS * N_HANDS * N_HANDS
    IN  applied = <<"Action::serialize">> =>
          /\ subject.kind = "Attack" =>
                /\ image.serial = (subject.i * N_HANDS + subject.a) * N_HANDS + subject.b
                /\ image.serial \in 0..(base - 1)
          /\ subject.kind = "Split" =>
                /\ image.serial = base + Numeral(subject.hands, serial_space)
                /\ image.serial \in base..(base + serial_space.ROLLOVER ^ N_HANDS - 1)

\* C18: a position met in a game never has the serialize_state value of an
\* earlier position of the game that differs from it in some player's hands
\* (and so in who remains) or, both being Turn positions, in the mover.
C18_StateSerialInjective ==
    (/\ image.kind = "StateSerial"
     /\ state_last.res = "Ok"
     /\ serialize_state(state_players, state_space) = image.serial) =>
        /\ subject.players = state_players
        /\ (/\ get_status(subject.i, subject.players).kind = "Turn"
            /\ get_status(state_i, state_players).kind = "Turn") =>
                subject.i = state_i

\* C19: the serial of a (state, action) pair, serialize_state(s1) +
\* serialize(a1), is the serial of another pair (s2, a2) only if a1 = a2 and
\* s1 and s2 have the same hands.
C19_StateActionPacking ==
    applied = <<"serialize_state + Action::serialize">> =>
        \A other \in StateActionSubjects(serial_space) :
            serialize_state_action(other, serial_space) = image.serial =>
                /\ ActionOf(other) = ActionOf(subject)
                /\ other.players = subject.players

\* C20: from a position whose status is Turn, the action a strategy (Random
\* or PureMonteCarlo) returns is an element of iter_actions() and play_action
\* accepts it; on a position whose status is Over, PureMonteCarlo::get_action
\* panics.
C20_Step ==
    /\ (/\ state_last.res = "Ok"
        /\ get_status(state_i, state_players).kind = "Turn") =>
            /\ state_last'.op = "play_action"
            /\ state_last'.res = "Ok"
            /\ \E action \in Range(iter_actions) : play_action(action)
    /\ (/\ state_last.res = "Ok"
        /\ get_status(state_i, state_players).kind = "Over") =>
            /\ state_last'.op = "PureMonteCarlo::get_action"
            /\ state_last'.res = "panic"
C20_StrategiesReturnLegal == [][C20_Step]_vars

\* C21: the action PureMonteCarlo::get_action returns has the least of the
\* aggregates of the actions of iter_actions(), and every action before it
\* in iter_actions() order has a greater aggregate.
C21_MinimalAggregateFirst ==
    pmc_last.action.kind \in {"Attack", "Split"} =>
        \E k \in DOMAIN iter_actions :
            /\ iter_actions[k] = pmc_last.action
            /\ \A j \in DOMAIN iter_actions : pmc_last.keys[j] >= pmc_last.keys[k]
            /\ \A j \in 1..(k - 1) : pmc_last.keys[j] > pmc_last.keys[k]

\* PureMonteCarlo returned an action that is not the first of iter_actions():
\* the actions before it have greater aggregates, and an action after it has
\* the same aggregate.
C21_Witness ==
    /\ pmc_last.action.kind \in {"Attack", "Split"}
    /\ pmc_last.n_sims > 0
    /\ pmc_last.action # iter_actions[1]
    /\ \E j, k \in DOMAIN iter_actions :
          /\ j < k
          /\ iter_actions[j] = pmc_last.action
          /\ pmc_last.keys[j] = pmc_last.keys[k]

\* C22: for Chopsticks (two players, ROLLOVER 5, one initial finger), from
\* every position reachable by moves of iter_actions() a position is
\* reachable at which the status is Over or is_loop_state() holds, and a
\* playout that chooses uniformly at random ends the loop of get_rankings.
C22_CanStop ==
    /\ game.at # "panic"
    /\ loop_stops_within(MaxDistance, Position(state_i, state_players))
C22_PlayoutEnds ==
    /\ []C22_CanStop
    /\ (game.at = "loop") ~> (game.at = "returned")
\* The playout is at a position the loop cannot stop at in fewer than three
\* turns.
C22_Witness ==
    /\ game.at = "loop"
    /\ ~loop_stops_within(2, Position(state_i, state_players))

\* C23: once is_loop_state() holds on a position whose status is Turn (one
\* player's hands are {0, 1} and the other's {0, 2}, whoever is to move), no
\* sequence of actions of iter_actions() reaches a position whose status is
\* Over.
RECURSIVE over_within(_, _)
over_within(n, at) ==
    \/ get_status(at.i, at.players).kind = "Over"
    \/ n > 0 /\ \E next \in played_positions(at) : over_within(n - 1, next)
C23_LoopNeverOver ==
    /\ get_status(state_i, state_players).kind = "Turn"
    /\ is_loop_state(state_players)
    => ~over_within(MaxDistance, Position(state_i, state_players))

\* C24: in get_rankings, for any number of players and any starting position,
\* every id that leaves the roster during the loop gets the size the roster
\* had just before the action that removed it as its rank, and the rank of
\* an id that has left the roster never changes.
C24_Step ==
    game.at = "loop" /\ game'.at = "loop" =>
        \A id \in game.player_ids :
            /\ id \in get_player_ids(players) /\ id \notin get_player_ids(players')
                  => ranks'[id + 1] = Len(players)
            /\ id \notin get_player_ids(players) => ranks'[id + 1] = ranks[id + 1]
C24_RankIsRosterSize == [][C24_Step]_vars

\* The ids that left the roster since get_rankings was called.
Gone(ps) == game.player_ids \ get_player_ids(ps)
\* A turn of the loop after which the ranks are written and id q has left.
Leaves(q) ==
    /\ game.at = "loop" /\ game'.at = "loop"
    /\ q \in get_player_ids(players) /\ q \notin get_player_ids(players')

\* C25: in the rankings of get_rankings a player eliminated earlier has a
\* smaller rank: if p leaves the roster at an earlier step than q, then
\* rank[p] < rank[q].
C25_EarlierStep ==
    \A q \in game.player_ids : Leaves(q) =>
        \A p \in Gone(players) : ranks'[p + 1] < ranks'[q + 1]
C25_EarlierIsSmaller == [][C25_EarlierStep]_vars

\* C25 as the code has it: a player eliminated earlier never has a smaller
\* rank than one eliminated later, rank[p] >= rank[q] (each is the size of
\* the roster get_rankings started with).
C25_NotSmallerStep ==
    \A q \in game.player_ids : Leaves(q) =>
        \A p \in Gone(players) :
            /\ ranks'[p + 1] >= ranks'[q + 1]
            /\ ranks'[q + 1] = Cardinality(game.player_ids)
C25_EarlierIsNotSmaller == [][C25_NotSmallerStep]_vars
\* Two ids have left the roster during the loop, and both have a rank.
C25_Witness ==
    /\ game.kind = "game::single_player"
    /\ \E p, q \in Gone(players) : p # q /\ ranks[p + 1] > 0 /\ ranks[q + 1] > 0

\* C26: when get_rankings has returned, every player that is still in the
\* game (not eliminated) has the rank N, the value the ranks start with.
C26_PresentKeepSentinel ==
    game.kind \in GameKinds /\ game.at = "returned" =>
        \A k \in Range(iter_player_indexes(state_players)) :
            ranks[state_players[k + 1].id + 1] = state_space.N_PLAYERS

\* C27: every action the loop of get_rankings applies to the position is
\* recorded in the history: a turn that plays an action appends that action
\* to the history, and nothing else changes the history during the loop.
C27_Step ==
    game.kind \in GameKinds /\ game.at = "loop" =>
        IF state_players' # state_players
            THEN /\ Len(history') = Len(history) + 1
                 /\ SubSeq(history', 1, Len(history)) = history
                 /\ history'[Len(history')] \in Range(iter_actions)
                 /\ play_action(history'[Len(history')])
        ELSE history' = history
C27_HistoryRecordsLoop == [][C27_Step]_vars

\* C28: every configuration the builder holds after any sequence of setter
\* calls from default(), accepted or rejected, has 0 < initial fingers <
\* rollover, so build() never makes a player whose hands are all 0.
C28_InitialInRange ==
    /\ 0 < chopsticks.initial_rollover
    /\ chopsticks.initial_rollover < chopsticks.rollover
    /\ \A k \in DOMAIN players : ~AllZero(players[k].hands)

\* C29: the status follows from the length of the roster alone: while two or
\* more players remain, winner_id() is None and the turn is the id at the
\* front of the roster; when one remains, winner_id() is Some(its id). The
\* id reported as winner was never eliminated: no id comes back to the
\* roster, and (built with 0 < initial fingers) the winner has a live hand.
C29_Status ==
    /\ Len(players) >= 2 => winner_id = <<>> /\ get_turn = Head(players).id
    /\ Len(players) = 1 =>
          /\ winner_id = <<Head(players).id>>
          /\ chopsticks.initial_rollover > 0 => ~AllZero(Head(players).hands)
C29_Step == Ids(players') \subseteq Ids(players)
C29_StatusFromRoster == []C29_Status /\ [][C29_Step]_vars
\* Of three players two were eliminated, and the one left is the winner.
C29_Witness ==
    /\ chopsticks.n_players = 3
    /\ Len(players) = 1
    /\ last.res = "Ok" /\ last.kind = "Attack"
    /\ winner_id = <<players[1].id>>

\* The scenario of tests::short_game: the abbreviation and the turn before
\* each attack, the attacking hand, and the abbreviation after it.
ShortGame ==
    << [at |-> <<1, 1, 1, 1>>, turn |-> 0, a |-> 0, to |-> <<1, 2, 1, 1>>],
       [at |-> <<1, 2, 1, 1>>, turn |-> 1, a |-> 1, to |-> <<1, 3, 1, 2>>],
       [at |-> <<1, 3, 1, 2>>, turn |-> 0, a |-> 1, to |-> <<0, 1, 1, 3>>],
       [at |-> <<0, 1, 1, 3>>, turn |-> 1, a |-> 1, to |-> <<1, 4, 0, 1>>],
       [at |-> <<1, 4, 0, 1>>, turn |-> 0, a |-> 1, to |-> <<1, 4>>] >>

\* C30: with two players, two hands, rollover 5 and one initial finger, from
\* the position 1111 the attack (1, 0, 1) and then four attacks (1, 1, 1)
\* all succeed, the position goes through the abbreviations 1211, 1312,
\* 0113, 1401, and the game ends with one player left, id 0, the winner.
C30_Step ==
    chopsticks = DefaultConfig =>
        \A k \in DOMAIN ShortGame :
            /\ abbreviation(players) = ShortGame[k].at
            /\ get_turn = ShortGame[k].turn
            /\ attack(1, ShortGame[k].a, 1)
            => /\ last'.res = "Ok"
               /\ abbreviation(players') = ShortGame[k].to
               /\ k = Len(ShortGame) =>
                     Len(players') = 1 /\ players'[1].id = 0
C30_Start ==
    chopsticks = DefaultConfig /\ last = NoCall =>
        abbreviation(players) = ShortGame[1].at /\ get_turn = ShortGame[1].turn
C30_ShortGame == []C30_Start /\ [][C30_Step]_vars
\* The last attack of the scenario was made: player 0 is left with 1 and 4
\* and is the winner.
C30_Witness ==
    /\ chopsticks = DefaultConfig
    /\ last = returned("attack", "Ok", AttackArgs(1, 1, 1))
    /\ abbreviation(players) = <<1, 4>>
    /\ winner_id = <<0>>

\* The ids of a roster, front first.
IdSeq(ps) == [k \in DOMAIN ps |-> ps[k].id]
\* The places of a sequence of ids, read as a cycle, where the next id is
\* smaller.
Descents(ids) ==
    {k \in DOMAIN ids : ids[k] > ids[(k % Len(ids)) + 1]}

\* C31: in every reachable ChopsticksState the ids in the roster are
\* pairwise distinct and from 0..n_players-1, and read as a cycle they are
\* in the initial order 0, 1, ..., with the eliminated ids deleted; a
\* successful attack or split deletes the eliminated ids and rotates the
\* rest by one place, each player keeping its id, and a failed one leaves
\* the roster's ids as they were.
C31_Roster ==
    /\ Ids(players) \subseteq 0..(chopsticks.n_players - 1)
    /\ Cardinality(Ids(players)) = Len(players)
    /\ Cardinality(Descents(IdSeq(players))) <= 1
C31_Step ==
    LET kept == SelectSeq(IdSeq(players), LAMBDA id : id \in Ids(players'))
    IN  /\ Ids(players') \subseteq Ids(players)
        /\ IdSeq(players') =
               IF last'.res = "Ok" THEN iterate_turn(kept) ELSE IdSeq(players)
C31_RosterOrder == []C31_Roster /\ [][C31_Step]_vars
\* Of three players the one with id 1 was eliminated: the roster is 2, 0.
C31_Witness ==
    /\ chopsticks.n_players = 3
    /\ last.res = "Ok" /\ last.kind = "Attack"
    /\ IdSeq(players) = <<2, 0>>

\* The errors attack, split and apply_action return.
MoveErrors ==
    {"PlayerIndexOutOfBounds", "HandIndexOutOfBounds", "HandIsNotAlive",
     "MoveWithoutChange", "InvalidTotalRollover", "InvalidFingerValue"}

\* C32: whenever attack, split or apply_action returns an error, the
\* position after the call is the position before it: the same roster in
\* the same order (so the same mover), the same hands for every player,
\* the same n_hands and rollover.
C32_Step ==
    last'.res \in MoveErrors =>
        players' = players /\ n_hands' = n_hands /\ rollover' = rollover
C32_FailedMoveChangesNothing == [][C32_Step]_vars
\* An attack on a dead hand of a position reached by play was refused.
C32_Witness ==
    /\ last.op = "attack" /\ last.res = "HandIsNotAlive"
    /\ players # build(chopsticks)
    /\ Len(players) >= 2
    /\ \E k \in 2..Len(players) : players[k].hands[1] = 0
    /\ \E h \in DOMAIN players[1].hands : players[1].hands[h] # 0

\* The first index after i, going cyclically through the players ps, whose
\* player is not eliminated.
NextSurvivor(i, ps) ==
    LET n == Len(ps)
        steps == {d \in 1..n : ~Player_is_eliminated(ps[((i + d) % n) + 1])}
        least == CHOOSE d \in steps : \A e \in steps : d <= e
    IN  (i + least) % n

\* C33: in State, for any number of players, after a successful
\* play_attack or play_split (called directly or through play_action) made
\* by the mover that leaves the status Turn, the new mover
\* index is the first index after the old one, cyclically, whose player is
\* not eliminated: the turn does not stay with the player who moved and
\* does not go to an eliminated player.
C33_Step ==
    /\ state_last'.res = "Ok"
    /\ state_last'.op \in {"play_attack", "play_split", "play_action"}
    /\ state_last'.i = state_i
    /\ get_status(state_i', state_players').kind = "Turn"
    => state_i' = NextSurvivor(state_i, state_players')
C33_TurnGoesToNextSurvivor == [][C33_Step]_vars

\* The attacks the mover at index i can legally make on players ps.
LegalAttacks(i, ps) ==
    {AttackAction(i, j, a, b) :
        j \in {k \in 0..(Len(ps) - 1) :
                  k # i /\ ~Player_is_eliminated(ps[k + 1])},
        a \in {h \in 0..(N_HANDS - 1) : ps[i + 1].hands[h + 1] # 0},
        b \in 0..(N_HANDS - 1)} \cap
    {action \in [kind : {"Attack"}, i : {i}, j : 0..(Len(ps) - 1),
                 a : 0..(N_HANDS - 1), b : 0..(N_HANDS - 1)] :
        ps[action.j + 1].hands[action.b + 1] # 0}

\* C34: at a position whose status is Turn, iter_attack_actions() yields,
\* without duplicates, exactly the attacks Attack {i: mover, j, a, b} with
\* j another non-eliminated player, a a non-zero hand of the mover and b a
\* non-zero hand of j, and none that uses or targets a hand of value 0.
C34_AttacksExactlyLegal ==
    get_status(state_i, state_players).kind = "Turn" =>
        /\ Range(iter_attack_actions) = LegalAttacks(state_i, state_players)
        /\ Cardinality(Range(iter_attack_actions)) = Len(iter_attack_actions)

\* C35: for every reachable position and every action play_action accepts
\* there (an attack that eliminates the defender or ends the game
\* included), undo_action of the same action on the position play_action
\* left returns Ok and restores the mover index and every player's hands.
C35_Step ==
    \A action \in AttackActionArgs \cup SplitActionArgs :
        play_action(action) /\ state_last'.res = "Ok" =>
            /\ undo_action_result(state_i', state_players', action,
                                  state_space) = "Ok"
            /\ undone_players(state_players', action, state_space)
                   = state_players
            /\ undo_iterate_turn(state_i',
                   undone_players(state_players', action, state_space),
                   state_space) = state_i
C35_UndoRestores == [][C35_Step]_vars

\* The offsets are the ones Chopsticks::new derives from the settings.
OffsetsDerived(c) ==
    c = Chopsticks_new(c.n_players, c.n_hands, c.rollover, c.initial_rollover)

\* C36: serialize_action is injective over the action domain: the serial
\* of an attack lies in [0, split_offset), the serial of a split is
\* split_offset + serialize_hands(new_hands), and no other action of the
\* domain has the serial of the action serialized.
C36_SerializeActionInjective ==
    last.op = "serialize_action" /\ OffsetsDerived(chopsticks) =>
        /\ last.kind = "Attack" => image.serial < chopsticks.split_offset
        /\ last.kind = "Split" =>
               image.serial = chopsticks.split_offset
                                  + serialize_hands(last.new_hands, chopsticks)
        /\ \A other \in ActionDomain(chopsticks) :
               \/ [other EXCEPT !.op = "serialize_action"] = last
               \/ serialize_action(other, chopsticks) # image.serial

\* C39: after any sequence of successful with_n_players, with_n_hands and
\* with_rollover calls, split_offset is n_players * n_hands * n_hands and
\* hands_offset is rollover ^ n_hands for the current values of the fields.
C39_OffsetsConsistent ==
    /\ chopsticks.split_offset
           = chopsticks.n_players * chopsticks.n_hands * chopsticks.n_hands
    /\ chopsticks.hands_offset = chopsticks.rollover ^ chopsticks.n_hands

\* The action ends the game with the mover the only player left.
ImmediateWin(action) ==
    iter_player_indexes(sim_players(action)) = <<state_i>>
RECURSIVE eliminated_always(_, _, _)
\* Every rollout of at most n turns from the position ends Over with the
\* player at index me eliminated (a rollout that stops at a loop state
\* eliminates nobody).
eliminated_always(n, at, me) ==
    IF get_status(at.i, at.players).kind = "Over"
        THEN iter_player_indexes(at.players) # <<me>>
    ELSE /\ get_status(at.i, at.players).kind = "Turn"
         /\ ~is_loop_state(at.players)
         /\ n > 0
         /\ \A next \in played_positions(at) :
                eliminated_always(n - 1, next, me)
\* The mover is eliminated in every rollout that follows the action.
CertainLoss(action) ==
    ~ImmediateWin(action)
    /\ \E played \in {sim_players(action)} :
          eliminated_always(MaxDistance,
              Position(play_iterate_turn(state_i, played), played), state_i)

\* C37: when PureMonteCarlo::get_action (n_sims >= 1, Chopsticks) has
\* computed its aggregates, an action that wins the game at once for the
\* mover has a strictly lower aggregate than any action after which the
\* mover is eliminated in every rollout.
C37_WinBeatsCertainLoss ==
    /\ pmc_last.n_sims > 0
    /\ pmc_last.action.kind \in {"Attack", "Split"}
    /\ state_space = ChopsticksSpace
    => \A w, l \in DOMAIN iter_actions :
           ImmediateWin(iter_actions[w]) /\ CertainLoss(iter_actions[l]) =>
               pmc_last.keys[w] < pmc_last.keys[l]

\* C38: abbreviation() is the concatenation, mover first, of the decimal
\* hand values of the players in the roster, each player's hands ascending:
\* with hand values below 10 it has exactly n_hands digits for each player
\* in the roster and none for an eliminated player, and it is 1111 for the
\* default initial position.
C38_AbbreviationOfRoster ==
    /\ Len(abbreviation(players)) = n_hands * Len(players)
    /\ \A k \in DOMAIN players : \A h \in 1..n_hands :
           abbreviation(players)[(k - 1) * n_hands + h] = players[k].hands[h]
    /\ \A k \in DOMAIN players : \A h \in 1..(n_hands - 1) :
           abbreviation(players)[(k - 1) * n_hands + h]
               <= abbreviation(players)[(k - 1) * n_hands + h + 1]
    /\ chopsticks = DefaultConfig /\ last = NoCall =>
           abbreviation(players) = <<1, 1, 1, 1>>

====
